---- MODULE Spec2Model ----
(***************************************************************************)
(* Layout and pagination engine of docxside-pdf (src/src/pdf.rs,           *)
(* src/src/fonts.rs).                                                      *)
(*                                                                         *)
(* Numbers.  Every f32 length, font size and height of the program is an   *)
(* integer number of hundredths of a point (1pt = 100).  Glyph widths of   *)
(* the 1000-unit em and font ratios (per mille) are plain integers.  The   *)
(* inputs are chosen so that every product and quotient the program forms  *)
(* is exact in these units; the column auto-fit, which divides, is carried *)
(* out on exact fractions (numerators over one common denominator).        *)
(***************************************************************************)
EXTENDS Integers, Sequences, FiniteSets, TLC

\* ------------------------------------------------------------------------
\* Generic helpers
\* ------------------------------------------------------------------------
Max(a, b) == IF a >= b THEN a ELSE b

Min(a, b) == IF a <= b THEN a ELSE b

Abs(a) == IF a >= 0 THEN a ELSE -a

RECURSIVE SumSeq(_)
SumSeq(s) == IF s = <<>> THEN 0 ELSE Head(s) + SumSeq(Tail(s))

RECURSIVE SeqsUpTo(_, _)
\* all sequences over S of length at most n
SeqsUpTo(S, n) ==
  IF n = 0 THEN {<<>>}
  ELSE LET shorter == SeqsUpTo(S, n - 1)
       IN shorter \cup {Append(s, x) : s \in shorter, x \in S}

\* ------------------------------------------------------------------------
\* Text: a string is a sequence of Unicode code points
\* ------------------------------------------------------------------------
\* char::is_whitespace (Unicode White_Space)
is_whitespace(c) ==
  \/ c \in 9..13
  \/ c \in {32, 133, 160, 5760, 8232, 8233, 8239, 8287, 12288}
  \/ c \in 8192..8202

starts_with_ws(text) == Len(text) > 0 /\ is_whitespace(text[1])

ends_with_ws(text) == Len(text) > 0 /\ is_whitespace(text[Len(text)])

RECURSIVE split_from(_, _, _)
\* str::split_whitespace: the maximal runs of non-whitespace characters
split_from(text, i, word) ==
  IF i > Len(text)
  THEN IF word = <<>> THEN <<>> ELSE <<word>>
  ELSE IF is_whitespace(text[i])
       THEN IF word = <<>> THEN split_from(text, i + 1, <<>>)
            ELSE <<word>> \o split_from(text, i + 1, <<>>)
       ELSE split_from(text, i + 1, Append(word, text[i]))

split_whitespace(text) == split_from(text, 1, <<>>)

\* fonts.rs to_winansi_bytes, one character: the byte, or -1 for None
winansi_byte(c) ==
  CASE c \in 0..127 -> c
    [] c \in 160..255 -> c
    [] c = 8364 -> 128
    [] c = 8218 -> 130
    [] c = 402 -> 131
    [] c = 8222 -> 132
    [] c = 8230 -> 133
    [] c = 8224 -> 134
    [] c = 8225 -> 135
    [] c = 710 -> 136
    [] c = 8240 -> 137
    [] c = 352 -> 138
    [] c = 8249 -> 139
    [] c = 338 -> 140
    [] c = 381 -> 142
    [] c = 8216 -> 145
    [] c = 8217 -> 146
    [] c = 8220 -> 147
    [] c = 8221 -> 148
    [] c = 8226 -> 149
    [] c = 8211 -> 150
    [] c = 8212 -> 151
    [] c = 732 -> 152
    [] c = 8482 -> 153
    [] c = 353 -> 154
    [] c = 8250 -> 155
    [] c = 339 -> 156
    [] c = 382 -> 158
    [] c = 376 -> 159
    [] OTHER -> -1

RECURSIVE to_winansi_bytes(_)
to_winansi_bytes(s) ==
  IF s = <<>> THEN <<>>
  ELSE LET b == winansi_byte(Head(s))
       IN (IF b = -1 THEN <<>> ELSE <<b>>) \o to_winansi_bytes(Tail(s))

\* fonts.rs helvetica_widths, the entry of byte b (32..255)
helvetica_width(b) ==
  CASE b = 32 -> 278
    [] b \in 33..47 -> 333
    [] b \in 48..57 -> 556
    [] b \in 58..64 -> 333
    [] b \in {73, 74} -> 278
    [] b = 77 -> 833
    [] b \in (65..90) \ {73, 74, 77} -> 667
    [] b \in 91..96 -> 333
    [] b \in {102, 105, 106, 108, 116} -> 278
    [] b \in {109, 119} -> 833
    [] OTHER -> 556

helvetica_widths == [b \in 32..255 |-> helvetica_width(b)]

\* Option<T>: None is the empty sequence, Some(v) the one-element sequence
NoneV == <<>>

\* Result<T, Error>: Ok(v) and Err(e), e naming the variant of error.rs 4-10
Ok(v) == [ok |-> TRUE, value |-> v]

Err(e) == [ok |-> FALSE, error |-> e]

Some(v) == <<v>>

is_some(o) == o # <<>>

unwrap_or(o, d) == IF o = <<>> THEN d ELSE o[1]

\* ------------------------------------------------------------------------
\* Font data.  The bytes of a font file are the sequence of the faces they
\* parse to (one for a .ttf/.otf, several for a collection, none for bytes
\* ttf_parser rejects).  A face gives its name-table family, its style
\* bits, units per em, ascender, descender, line gap and the advance of
\* the space glyph and of every other glyph.
\* ------------------------------------------------------------------------
Face(family, bold, italic, asc, desc, gap, space_adv, glyph_adv) ==
  [family |-> family, bold |-> bold, italic |-> italic, units |-> 1000,
   ascender |-> asc, descender |-> desc, line_gap |-> gap,
   space_adv |-> space_adv, glyph_adv |-> glyph_adv]

\* str::to_lowercase on the family names of the model
to_lowercase(s) ==
  CASE s = "Emb" -> "emb"
    [] s = "Host" -> "host"
    [] s = "HOST" -> "host"
    [] s = "Helvetica" -> "helvetica"
    [] OTHER -> s

\* fonts.rs embed_truetype: None when the face does not parse, else the
\* width table (advance / units * 1000) and the two ratios (per mille)
embed_truetype(font_data, face_index) ==
  IF face_index >= Len(font_data) THEN NoneV
  ELSE LET face == font_data[face_index + 1]
       IN Some([widths |-> [b \in 32..255 |->
                              IF b = 32
                              THEN (face.space_adv * 1000) \div face.units
                              ELSE (face.glyph_adv * 1000) \div face.units],
                line_h_ratio |->
                  ((face.ascender - face.descender + face.line_gap) * 1000)
                    \div face.units,
                ascender_ratio |-> (face.ascender * 1000) \div face.units])

\* fonts.rs primary_font_name: a font name is the list of its ';' separated
\* alternatives, the primary name is the first
primary_font_name(name) == IF name = <<>> THEN "" ELSE name[1]

\* fonts.rs font_key: the key is the pair (base, style suffix)
font_key(run) ==
  LET base == primary_font_name(run.font_name)
  IN CASE run.bold /\ run.italic -> <<base, "/BI">>
       [] run.bold /\ ~run.italic -> <<base, "/B">>
       [] ~run.bold /\ run.italic -> <<base, "/I">>
       [] OTHER -> <<base, "">>

\* fonts.rs find_font_file against the process-wide index
find_font_file(index, font_name, bold, italic) ==
  LET key == to_lowercase(font_name)
  IN IF <<key, bold, italic>> \in DOMAIN index
     THEN Some(index[<<key, bold, italic>>])
     ELSE IF bold \/ italic
          THEN IF <<key, FALSE, FALSE>> \in DOMAIN index
               THEN Some(index[<<key, FALSE, FALSE>>])
               ELSE NoneV
          ELSE NoneV

\* fonts.rs 40-44 read_font_style: None when the face does not parse
read_font_style(data, face_index) ==
  IF face_index >= Len(data) THEN NoneV
  ELSE Some(<<data[face_index + 1].family, data[face_index + 1].bold,
              data[face_index + 1].italic>>)

\* fonts.rs 126-130: a collection gives its number of fonts, any other
\* file one face
face_count(file) == IF file.is_collection THEN Len(file.data) ELSE 1

RECURSIVE index_faces(_, _, _, _)
\* fonts.rs 131-137: the faces of one file from face_idx on; the first
\* file met for a key keeps it (or_insert)
index_faces(index, path, file, face_idx) ==
  IF face_idx >= face_count(file) THEN index
  ELSE LET style == read_font_style(file.data, face_idx)
           key == <<to_lowercase(style[1][1]), style[1][2], style[1][3]>>
       IN index_faces(
            IF style = NoneV THEN index
            ELSE IF key \in DOMAIN index THEN index
                 ELSE index @@ (key :> [path |-> path,
                                        face_index |-> face_idx]),
            path, file, face_idx + 1)

RECURSIVE scan_entries(_, _, _, _)
scan_entries(index, files, order, i) ==
  IF i > Len(order) THEN index
  ELSE scan_entries(index_faces(index, order[i], files[order[i]], 0),
                    files, order, i + 1)

\* fonts.rs 104-143 scan_font_dirs.  files maps the path of every font
\* file under the font directories to [data, is_collection]; order is the
\* order in which the walk meets them, which read_dir decides
scan_font_dirs(files, order) ==
  scan_entries([k \in {} |-> k], files, order, 1)

\* a caller that finds the index unset runs the initialiser, another
\* running it or not
get_or_init_unguarded(font_index, initialising) ==
  IF font_index # NoneV THEN "got" ELSE "scan"

\* fonts.rs 146, OnceLock::get_or_init: what a caller does next: it is
\* given the index if it is set ("got"), waits if another thread is running
\* the initialiser ("wait"), and else runs the initialiser itself ("scan")
get_or_init(font_index, initialising) ==
  IF font_index # NoneV THEN "got"
  ELSE IF initialising THEN "wait" ELSE "scan"

\* fonts.rs 145-147 get_font_index (OnceLock::get_or_init): the index is
\* built by the first call and kept
get_font_index(font_index, files, order) ==
  IF font_index = NoneV THEN scan_font_dirs(files, order) ELSE font_index[1]

\* fonts.rs register_font.  files maps a path to the bytes std::fs::read
\* returns for it (a path outside its domain cannot be read).
register_font(font_name, bold, italic, pdf_name, embedded_fonts, index, files) ==
  LET embedded_key == <<to_lowercase(font_name), bold, italic>>
      from_embedded ==
        IF embedded_key \in DOMAIN embedded_fonts
        THEN embed_truetype(embedded_fonts[embedded_key], 0)
        ELSE NoneV
      found == find_font_file(index, font_name, bold, italic)
      from_host ==
        IF found = NoneV THEN NoneV
        ELSE IF found[1].path \notin DOMAIN files THEN NoneV
             ELSE embed_truetype(files[found[1].path], found[1].face_index)
      got == IF from_embedded # NoneV THEN from_embedded ELSE from_host
  IN IF got # NoneV
     THEN [pdf_name |-> pdf_name, widths_1000 |-> got[1].widths,
           line_h_ratio |-> Some(got[1].line_h_ratio),
           ascender_ratio |-> Some(got[1].ascender_ratio)]
     ELSE [pdf_name |-> pdf_name, widths_1000 |-> helvetica_widths,
           line_h_ratio |-> NoneV, ascender_ratio |-> NoneV]

\* ------------------------------------------------------------------------
\* Text flow: build_paragraph_lines (pdf.rs 24-141)
\* A run is [text, font_size, font_name, bold, italic, is_tab,
\* vertical_align, field_code].  A chunk carries, besides the fields of
\* WordChunk that layout reads, the index of its run and of its word in
\* the run (run, word), which only the properties read.
\* ------------------------------------------------------------------------
effective_font_size(run) ==
  IF run.vertical_align \in {"Superscript", "Subscript"}
  THEN (run.font_size * 58) \div 100
  ELSE run.font_size

vert_y_offset(run) ==
  CASE run.vertical_align = "Superscript" -> (run.font_size * 35) \div 100
    [] run.vertical_align = "Subscript" -> -((run.font_size * 14) \div 100)
    [] OTHER -> 0

\* the bytes that count for a width: .filter(|&&b| b >= 32)
RECURSIVE bytes_width(_, _, _)
bytes_width(bytes, entry, fs) ==
  IF bytes = <<>> THEN 0
  ELSE (IF Head(bytes) >= 32
        THEN (entry.widths_1000[Head(bytes)] * fs) \div 1000
        ELSE 0)
       + bytes_width(Tail(bytes), entry, fs)

word_width(word, entry, fs) == bytes_width(to_winansi_bytes(word), entry, fs)

space_width(entry, eff_fs) == (entry.widths_1000[32] * eff_fs) \div 1000

\* the width of the line taken from its first chunk
finish_line_first(chunks) ==
  [chunks |-> chunks,
   total_width |-> IF chunks = <<>> THEN 0
                   ELSE chunks[1].x_offset + chunks[1].width]

\* pdf.rs 46-52
finish_line(chunks) ==
  [chunks |-> chunks,
   total_width |-> IF chunks = <<>> THEN 0
                   ELSE chunks[Len(chunks)].x_offset + chunks[Len(chunks)].width]

\* pdf.rs 87-88
need_space(current_chunks, i, starts_ws, prev_ended_with_ws) ==
  current_chunks # <<>> /\ (i > 0 \/ starts_ws \/ prev_ended_with_ws)

\* always the space of the run of the word
effective_space_w_own(i, starts_ws, space_w, prev_space_w) == space_w

\* pdf.rs 93-97
effective_space_w(i, starts_ws, space_w, prev_space_w) ==
  IF i > 0 \/ starts_ws THEN space_w ELSE prev_space_w

\* the break test without the width of the word
must_wrap_ignoring_word(current_chunks, proposed_x, ww, max_width) ==
  current_chunks # <<>> /\ proposed_x > max_width

\* pdf.rs 105
must_wrap(current_chunks, proposed_x, ww, max_width) ==
  current_chunks # <<>> /\ proposed_x + ww > max_width

\* pdf.rs 89-100: where the word would start on the current line
proposed_x_of(st, i, sws, space_w) ==
  IF need_space(st.current_chunks, i, sws, st.prev_ended_with_ws)
  THEN st.current_x + effective_space_w(i, sws, space_w, st.prev_space_w)
  ELSE st.current_x

\* pdf.rs 105-124: the chunk goes to the current line or opens a new one
push_chunk(st, chunk, wrap) ==
  [st EXCEPT
     !.lines = IF wrap THEN Append(@, finish_line(st.current_chunks)) ELSE @,
     !.current_chunks = IF wrap THEN <<chunk>> ELSE Append(@, chunk),
     !.current_x = chunk.x_offset + chunk.width]

\* pdf.rs 105-123: the word, ww wide, placed at proposed_x or at 0
place_at(st, run, ri, entry, word, i, ww, wrap, proposed_x) ==
  push_chunk(st,
             [pdf_font |-> entry.pdf_name, text |-> word,
              font_size |-> effective_font_size(run),
              x_offset |-> IF wrap THEN 0 ELSE proposed_x, width |-> ww,
              y_offset |-> vert_y_offset(run), run |-> ri, word |-> i],
             wrap)

\* pdf.rs 89-123 for a word known to be ww wide
place_measured(st, run, ri, entry, word, i, max_width, ww, proposed_x) ==
  place_at(st, run, ri, entry, word, i, ww,
           must_wrap(st.current_chunks, proposed_x, ww, max_width),
           proposed_x)

\* one pass of the word loop (pdf.rs 80-124); i is the 0-based word index
place_word(st, run, ri, entry, word, i, max_width) ==
  place_measured(st, run, ri, entry, word, i, max_width,
                 word_width(word, entry, effective_font_size(run)),
                 proposed_x_of(st, i, starts_with_ws(run.text),
                               space_width(entry, effective_font_size(run))))

RECURSIVE place_words(_, _, _, _, _, _, _)
place_words(st, run, ri, entry, words, i, max_width) ==
  IF i >= Len(words) THEN st
  ELSE place_words(place_word(st, run, ri, entry, words[i + 1], i, max_width),
                   run, ri, entry, words, i + 1, max_width)

\* one pass of the run loop (pdf.rs 69-128)
layout_run(st, run, ri, seen_fonts, max_width) ==
  IF run.is_tab THEN st
  ELSE LET entry == seen_fonts[font_key(run)]
           after == place_words(st, run, ri, entry,
                                split_whitespace(run.text), 0, max_width)
       IN [after EXCEPT
             !.prev_ended_with_ws = ends_with_ws(run.text),
             !.prev_space_w = space_width(entry, effective_font_size(run))]

RECURSIVE layout_runs(_, _, _, _, _)
layout_runs(st, runs, ri, seen_fonts, max_width) ==
  IF ri > Len(runs) THEN st
  ELSE layout_runs(layout_run(st, runs[ri], ri, seen_fonts, max_width),
                   runs, ri + 1, seen_fonts, max_width)

\* without the fallback line
or_no_line(lines) == lines

\* pdf.rs 134-139: never an empty list of lines
or_one_empty_line(lines) ==
  IF lines = <<>> THEN <<[chunks |-> <<>>, total_width |-> 0]>> ELSE lines

build_paragraph_lines(runs, seen_fonts, max_width) ==
  LET st0 == [lines |-> <<>>, current_chunks |-> <<>>, current_x |-> 0,
              prev_ended_with_ws |-> FALSE, prev_space_w |-> 0]
      st == layout_runs(st0, runs, 1, seen_fonts, max_width)
      lines == IF st.current_chunks # <<>>
               THEN Append(st.lines, finish_line(st.current_chunks))
               ELSE st.lines
  IN or_one_empty_line(lines)

\* ------------------------------------------------------------------------
\* Phase 1 of render (pdf.rs 810-878): one FontEntry per distinct font key
\* ------------------------------------------------------------------------
RECURSIVE register_runs(_, _, _, _, _, _)
\* acc is [seen_fonts, font_order]
register_runs(acc, all_runs, i, embedded_fonts, index, files) ==
  IF i > Len(all_runs) THEN acc
  ELSE LET run == all_runs[i]
           key == font_key(run)
       IN IF key \in DOMAIN acc.seen_fonts
          THEN register_runs(acc, all_runs, i + 1, embedded_fonts, index, files)
          ELSE LET entry ==
                     register_font(primary_font_name(run.font_name), run.bold,
                                   run.italic, Len(acc.font_order) + 1,
                                   embedded_fonts, index, files)
               IN register_runs(
                    [seen_fonts |-> (key :> entry) @@ acc.seen_fonts,
                     font_order |-> Append(acc.font_order, key)],
                    all_runs, i + 1, embedded_fonts, index, files)

collect_fonts(all_runs, embedded_fonts, index, files) ==
  LET acc == register_runs([seen_fonts |-> <<>>, font_order |-> <<>>],
                           all_runs, 1, embedded_fonts, index, files)
  IN IF acc.font_order = <<>>
     THEN [seen_fonts |->
             (<<"Helvetica", "">> :>
                register_font("Helvetica", FALSE, FALSE, 1,
                              embedded_fonts, index, files)),
           font_order |-> << <<"Helvetica", "">> >>]
     ELSE acc

\* ------------------------------------------------------------------------
\* Tab stops: build_tabbed_line (pdf.rs 143-365)
\* A tab stop is [position, alignment, leader], leader an Option<char>.
\* ------------------------------------------------------------------------
DEFAULT_TAB_INTERVAL == 3600

\* the 0.5pt of pdf.rs 150 and 273
TAB_STOP_SLACK == 50

RECURSIVE first_stop_after(_, _, _)
\* the first configured stop beyond abs_x + 0.5pt, or None
first_stop_after(tab_stops, i, abs_x) ==
  IF i > Len(tab_stops) THEN NoneV
  ELSE IF tab_stops[i].position > abs_x + TAB_STOP_SLACK
       THEN Some(tab_stops[i])
       ELSE first_stop_after(tab_stops, i + 1, abs_x)

\* the default stop at the multiple of the interval at or after abs_x
find_next_tab_stop_ceil(current_x, tab_stops, indent_left) ==
  LET abs_x == current_x + indent_left
      stop == first_stop_after(tab_stops, 1, abs_x)
  IN IF stop # NoneV THEN stop[1]
     ELSE [position |-> ((abs_x + DEFAULT_TAB_INTERVAL - 1)
                           \div DEFAULT_TAB_INTERVAL)
                          * DEFAULT_TAB_INTERVAL,
           alignment |-> "Left", leader |-> NoneV]

\* pdf.rs 143-160
find_next_tab_stop(current_x, tab_stops, indent_left) ==
  LET abs_x == current_x + indent_left
      stop == first_stop_after(tab_stops, 1, abs_x)
  IN IF stop # NoneV THEN stop[1]
     ELSE [position |-> ((abs_x \div DEFAULT_TAB_INTERVAL) + 1)
                          * DEFAULT_TAB_INTERVAL,
           alignment |-> "Left", leader |-> NoneV]

RECURSIVE segment_from(_, _, _, _, _)
\* pdf.rs 162-183 over the runs rs[seg[k]], k from i
segment_from(rs, seg, i, first, seen_fonts) ==
  IF i > Len(seg) THEN 0
  ELSE LET run == rs[seg[i]]
           entry == seen_fonts[font_key(run)]
           eff_fs == effective_font_size(run)
           words == split_whitespace(run.text)
           spaces == IF words = <<>> THEN 0
                     ELSE IF first THEN Len(words) - 1 ELSE Len(words)
       IN spaces * space_width(entry, eff_fs)
          + SumSeq([wi \in 1..Len(words) |->
                      word_width(words[wi], entry, eff_fs)])
          + segment_from(rs, seg, i + 1, first /\ words = <<>>, seen_fonts)

segment_width(rs, seg, seen_fonts) == segment_from(rs, seg, 1, TRUE, seen_fonts)

RECURSIVE before_dot_from(_, _, _, _, _)
\* pdf.rs 185-214: the characters before the first '.', each measured in
\* the font of its run, whitespace included
before_dot_from(rs, seg, i, k, seen_fonts) ==
  IF i > Len(seg) THEN 0
  ELSE LET run == rs[seg[i]]
       IN IF k > Len(run.text)
          THEN before_dot_from(rs, seg, i + 1, 1, seen_fonts)
          ELSE IF run.text[k] = 46 THEN 0
               ELSE bytes_width(to_winansi_bytes(<<run.text[k]>>),
                                seen_fonts[font_key(run)],
                                effective_font_size(run))
                    + before_dot_from(rs, seg, i, k + 1, seen_fonts)

decimal_before_width(rs, seg, seen_fonts) ==
  before_dot_from(rs, seg, 1, 1, seen_fonts)

RECURSIVE split_segments(_, _, _)
\* pdf.rs 224-241: the run indices of each segment between tab runs
split_segments(rs, i, current_seg) ==
  IF i > Len(rs) THEN <<current_seg>>
  ELSE IF rs[i].is_tab
       THEN <<current_seg>> \o split_segments(rs, i + 1, <<>>)
       ELSE split_segments(rs, i + 1, Append(current_seg, i))

\* the segment start without the hold at the cursor
seg_start_for_unheld(stop, tab_target, current_x, rs, seg, seen_fonts) ==
  CASE stop.alignment = "Left" -> tab_target
    [] stop.alignment = "Center" ->
         tab_target - (segment_width(rs, seg, seen_fonts) \div 2)
    [] stop.alignment = "Right" ->
         tab_target - segment_width(rs, seg, seen_fonts)
    [] stop.alignment = "Decimal" ->
         tab_target - decimal_before_width(rs, seg, seen_fonts)

\* pdf.rs 252-266
seg_start_for(stop, tab_target, current_x, rs, seg, seen_fonts) ==
  CASE stop.alignment = "Left" -> Max(tab_target, current_x)
    [] stop.alignment = "Center" ->
         Max(tab_target - (segment_width(rs, seg, seen_fonts) \div 2),
             current_x)
    [] stop.alignment = "Right" ->
         Max(tab_target - segment_width(rs, seg, seen_fonts), current_x)
    [] stop.alignment = "Decimal" ->
         Max(tab_target - decimal_before_width(rs, seg, seen_fonts),
             current_x)

RECURSIVE last_run_before(_, _)
\* pdf.rs 277-283: the last run of the nearest earlier non-empty segment
last_run_before(segments, seg_idx) ==
  IF seg_idx < 1 THEN NoneV
  ELSE IF segments[seg_idx] # <<>>
       THEN Some(segments[seg_idx][Len(segments[seg_idx])])
       ELSE last_run_before(segments, seg_idx - 1)

\* pdf.rs 269-320: the leader chunk before segment seg_idx, if any
leader_chunks(rs, segments, seg_idx, current_x, seg_start, tab_stops, indent_left, seen_fonts) ==
  LET stop == first_stop_after(tab_stops, 1, current_x + indent_left)
      leader == IF stop = NoneV THEN NoneV ELSE stop[1].leader
      font_run == IF segments[seg_idx] # <<>>
                  THEN Some(segments[seg_idx][1])
                  ELSE last_run_before(segments, seg_idx - 1)
  IN IF leader = NoneV \/ font_run = NoneV THEN <<>>
     ELSE LET run == rs[font_run[1]]
              entry == seen_fonts[font_key(run)]
              eff_fs == effective_font_size(run)
              leader_bytes == to_winansi_bytes(leader)
          IN IF leader_bytes = <<>> THEN <<>>
             ELSE IF leader_bytes[1] < 32 THEN <<>>
             ELSE LET char_w == (entry.widths_1000[leader_bytes[1]] * eff_fs)
                                  \div 1000
                      leader_gap == seg_start - current_x
                  IN IF char_w > 0 /\ leader_gap > char_w * 2
                     THEN LET count == (leader_gap - char_w) \div char_w
                          IN IF count > 0
                             THEN <<[pdf_font |-> entry.pdf_name,
                                     text |-> [k \in 1..count |-> leader[1]],
                                     font_size |-> eff_fs,
                                     x_offset |-> seg_start - count * char_w,
                                     width |-> count * char_w,
                                     y_offset |-> 0,
                                     run |-> font_run[1], word |-> -1]>>
                             ELSE <<>>
                     ELSE <<>>

RECURSIVE tab_words(_, _, _, _, _, _)
\* pdf.rs 334-355; st is [all_chunks, current_x, prev_ws]
tab_words(st, run, ri, entry, words, i) ==
  IF i >= Len(words) THEN st
  ELSE LET eff_fs == effective_font_size(run)
           ww == word_width(words[i + 1], entry, eff_fs)
           x == IF st.all_chunks # <<>>
                   /\ (i > 0 \/ st.prev_ws \/ starts_with_ws(run.text))
                THEN st.current_x + space_width(entry, eff_fs)
                ELSE st.current_x
       IN tab_words(
            [st EXCEPT
               !.all_chunks =
                 Append(@, [pdf_font |-> entry.pdf_name, text |-> words[i + 1],
                            font_size |-> eff_fs, x_offset |-> x,
                            width |-> ww, y_offset |-> vert_y_offset(run),
                            run |-> ri, word |-> i]),
               !.current_x = x + ww],
            run, ri, entry, words, i + 1)

RECURSIVE tab_segment_runs(_, _, _, _, _)
\* pdf.rs 326-357
tab_segment_runs(st, rs, seg, k, seen_fonts) ==
  IF k > Len(seg) THEN st
  ELSE LET run == rs[seg[k]]
           after == tab_words(st, run, seg[k], seen_fonts[font_key(run)],
                              split_whitespace(run.text), 0)
       IN tab_segment_runs([after EXCEPT !.prev_ws = ends_with_ws(run.text)],
                           rs, seg, k + 1, seen_fonts)

RECURSIVE tab_segments(_, _, _, _, _, _, _)
\* pdf.rs 246-358
tab_segments(st, rs, segments, seg_idx, tab_stops, indent_left, seen_fonts) ==
  IF seg_idx > Len(segments) THEN st
  ELSE LET seg == segments[seg_idx]
           stop == find_next_tab_stop(st.current_x, tab_stops, indent_left)
           seg_start == seg_start_for(stop, stop.position - indent_left,
                                      st.current_x, rs, seg, seen_fonts)
           moved ==
             IF seg_idx > 1
             THEN [all_chunks |->
                     st.all_chunks
                       \o leader_chunks(rs, segments, seg_idx, st.current_x,
                                        seg_start, tab_stops, indent_left,
                                        seen_fonts),
                   current_x |-> seg_start, prev_ws |-> FALSE]
             ELSE [st EXCEPT !.prev_ws = FALSE]
       IN tab_segments(tab_segment_runs(moved, rs, seg, 1, seen_fonts),
                       rs, segments, seg_idx + 1, tab_stops, indent_left,
                       seen_fonts)

\* pdf.rs 217-365
build_tabbed_line(rs, seen_fonts, tab_stops, indent_left) ==
  LET st == tab_segments([all_chunks |-> <<>>, current_x |-> 0,
                          prev_ws |-> FALSE],
                         rs, split_segments(rs, 1, <<>>), 1, tab_stops,
                         indent_left, seen_fonts)
  IN <<finish_line(st.all_chunks)>>

\* ------------------------------------------------------------------------
\* Rendering of built lines: render_paragraph_lines (pdf.rs 369-440)
\* A page content is the sequence of what was drawn into it.  A drawn line
\* is [kind |-> "line", src, idx, last, y, pitch, is_justified,
\* extra_per_gap, shown, set_font, chunk_src]: src names the paragraph the line comes from
\* and last tells whether it is that paragraph's last line (both read by
\* the properties only, copied from the TextLine), idx is global_line_idx,
\* y the baseline and pitch the distance to the next baseline,
\* extra_per_gap the exact fraction <<numerator, denominator>>, shown the
\* byte strings handed to show(), set_font the font name and size handed to
\* set_font() for each chunk, chunk_src the run and word each chunk comes
\* from (read by the properties only), x the x of each chunk before its
\* share chunk_idx * extra_per_gap of the justification (pdf.rs 404).
\* ------------------------------------------------------------------------
\* marks each line of one paragraph with its paragraph and its position
mark_lines(lines, src) ==
  [i \in 1..Len(lines) |->
     [chunks |-> lines[i].chunks, total_width |-> lines[i].total_width,
      src |-> src, last |-> (i = Len(lines))]]

\* pdf.rs 413: the bytes of a chunk handed to show()
shown_bytes(chunk) == to_winansi_bytes(chunk.text)

\* pdf.rs 387-389
is_justified(alignment, global_line_idx, last_line_idx, nchunks) ==
  /\ alignment = "Justify"
  /\ global_line_idx # last_line_idx
  /\ nchunks > 1

\* pdf.rs 391-395
line_start_x(alignment, margin_left, text_width, total_width) ==
  CASE alignment = "Center" ->
         margin_left + (text_width - total_width) \div 2
    [] alignment = "Right" -> margin_left + text_width - total_width
    [] OTHER -> margin_left

render_paragraph_lines(lines, alignment, margin_left, text_width, first_baseline_y, line_pitch, total_line_count, first_line_index) ==
  LET last_line_idx == IF total_line_count = 0 THEN 0
                       ELSE total_line_count - 1
  IN [line_num \in 1..Len(lines) |->
        LET line == lines[line_num]
            global_line_idx == first_line_index + (line_num - 1)
            just == is_justified(alignment, global_line_idx, last_line_idx,
                                 Len(line.chunks))
        IN [kind |-> "line", src |-> line.src, idx |-> global_line_idx,
            last |-> line.last,
            y |-> first_baseline_y - (line_num - 1) * line_pitch,
            pitch |-> line_pitch,
            is_justified |-> just,
            extra_per_gap |->
              IF just
              THEN <<text_width - line.total_width, Len(line.chunks) - 1>>
              ELSE <<0, 1>>,
            shown |-> [ci \in 1..Len(line.chunks) |->
                         shown_bytes(line.chunks[ci])],
            set_font |-> [ci \in 1..Len(line.chunks) |->
                            <<line.chunks[ci].pdf_font,
                              line.chunks[ci].font_size>>],
            chunk_src |-> [ci \in 1..Len(line.chunks) |->
                             <<line.chunks[ci].run, line.chunks[ci].word>>],
            x |-> [ci \in 1..Len(line.chunks) |->
                     line_start_x(alignment, margin_left, text_width,
                                  line.total_width)
                       + line.chunks[ci].x_offset]]]

\* pdf.rs 442-451; get is "line_h_ratio" or "ascender_ratio"
font_metric(rs, seen_fonts, get) ==
  IF rs = <<>> THEN NoneV
  ELSE IF font_key(rs[1]) \notin DOMAIN seen_fonts THEN NoneV
       ELSE seen_fonts[font_key(rs[1])][get]

RECURSIVE tallest_from(_, _, _, _)
\* the loop of tallest_run_metrics; best is [font_size, ascent,
\* line_h_ratio, ascender_ratio], ascent in 1/100000 pt
tallest_from(best, rs, i, seen_fonts) ==
  IF i > Len(rs) THEN best
  ELSE LET run == rs[i]
           key == font_key(run)
           has == key \in DOMAIN seen_fonts
           ar == IF has THEN unwrap_or(seen_fonts[key].ascender_ratio, 750)
                 ELSE 750
           ascent == run.font_size * ar
       IN tallest_from(
            IF ascent > best.ascent
            THEN [font_size |-> run.font_size, ascent |-> ascent,
                  ascender_ratio |->
                    IF has THEN seen_fonts[key].ascender_ratio ELSE NoneV,
                  line_h_ratio |->
                    IF has THEN seen_fonts[key].line_h_ratio ELSE NoneV]
            ELSE best,
            rs, i + 1, seen_fonts)

\* pdf.rs 455-477
tallest_run_metrics(rs, seen_fonts) ==
  tallest_from([font_size |-> IF rs = <<>> THEN 1200 ELSE rs[1].font_size,
                ascent |-> 0, line_h_ratio |-> NoneV,
                ascender_ratio |-> NoneV],
               rs, 1, seen_fonts)

\* font_size * ratio * line spacing, or font_size * 1.2 (pdf.rs 962-964,
\* 589-591, 780-782); ratio and spacing are per mille
line_height(font_size, ratio, spacing) ==
  IF ratio = NoneV THEN (font_size * 12) \div 10
  ELSE (((font_size * ratio[1]) \div 1000) * spacing) \div 1000

\* ------------------------------------------------------------------------
\* Tables (pdf.rs 479-709)
\* A table is [col_widths, rows], a row [cells], a cell [width,
\* paragraphs].
\* ------------------------------------------------------------------------
TABLE_CELL_PAD_LEFT == 540

TABLE_CELL_PAD_TOP == 0

TABLE_CELL_PAD_BOTTOM == 0

TABLE_BORDER_WIDTH == 50

\* the 0.01pt of pdf.rs 547
NORMALIZE_EPSILON == 1

RECURSIVE Gcd(_, _)
Gcd(a, b) == IF b = 0 THEN a ELSE Gcd(b, a % b)

SetMax(S) == CHOOSE x \in S : \A y \in S : y <= x

\* pdf.rs 498-520: the widest word of column ci (1-based) over all rows,
\* measured at run.font_size; runs whose font is not registered are skipped
min_width(table, ci, seen_fonts) ==
  SetMax({0} \cup
    UNION {
      UNION {
        UNION {
          LET run == table.rows[ri].cells[ci].paragraphs[pi].runs[ki]
              words == split_whitespace(run.text)
          IN IF font_key(run) \notin DOMAIN seen_fonts THEN {}
             ELSE {word_width(words[wi], seen_fonts[font_key(run)],
                              run.font_size) : wi \in 1..Len(words)}
          : ki \in 1..Len(table.rows[ri].cells[ci].paragraphs[pi].runs)}
        : pi \in 1..Len(table.rows[ri].cells[ci].paragraphs)}
      : ri \in {r \in 1..Len(table.rows) : ci <= Len(table.rows[r].cells)}})

\* pdf.rs 539-544: the numerators over fden of the widths after the
\* columns above their minimum gave up factor = fnum/fden of their slack
shrink(w, min_w, fnum, fden) ==
  [i \in 1..Len(w) |->
     IF w[i] > min_w[i]
     THEN w[i] * fden - (w[i] - min_w[i]) * fnum
     ELSE w[i] * fden]

\* pdf.rs 537
needs_shrink(extra_needed, shrinkable) == extra_needed > 0 /\ shrinkable > 0

\* pdf.rs 538-552: the shrunk widths (numerators over fden), rescaled to
\* the hinted total when their sum is off it by more than 0.01pt
normalized(shrunk, fden, total, new_total) ==
  IF Abs(new_total - total * fden) > NORMALIZE_EPSILON * fden
  THEN \* scale = total / new_total
       [nums |-> [i \in 1..Len(shrunk) |-> shrunk[i] * total],
        den |-> new_total]
  ELSE [nums |-> shrunk, den |-> fden]

\* pdf.rs 538-544 with factor = f / shrinkable in lowest terms fnum / fden
shrunk_by(grown, min_widths, total, fnum, fden) ==
  normalized(shrink(grown, min_widths, fnum, fden), fden, total,
             SumSeq(shrink(grown, min_widths, fnum, fden)))

\* pdf.rs 537-554
fit_grown(grown, min_widths, total, extra_needed, shrinkable) ==
  IF needs_shrink(extra_needed, shrinkable)
  THEN shrunk_by(grown, min_widths, total,
                 Min(extra_needed, shrinkable)
                   \div Gcd(Min(extra_needed, shrinkable), shrinkable),
                 shrinkable
                   \div Gcd(Min(extra_needed, shrinkable), shrinkable))
  ELSE [nums |-> grown, den |-> 1]

\* pdf.rs 522-555 for the minimum widths found
fit_columns(col_widths, min_widths) ==
  fit_grown(
    [i \in 1..Len(col_widths) |->
       IF min_widths[i] > col_widths[i] THEN min_widths[i]
       ELSE col_widths[i]],
    min_widths,
    SumSeq(col_widths),
    SumSeq([i \in 1..Len(col_widths) |->
              IF min_widths[i] > col_widths[i]
              THEN min_widths[i] - col_widths[i] ELSE 0]),
    SumSeq([i \in 1..Len(col_widths) |->
              IF min_widths[i] > col_widths[i]
              THEN 0 ELSE col_widths[i] - min_widths[i]]))

\* pdf.rs 487-556.  The result is exact: column i is nums[i] / den.
auto_fit_columns(table, seen_fonts) ==
  IF Len(table.col_widths) = 0 THEN [nums |-> <<>>, den |-> 1]
  ELSE fit_columns(table.col_widths,
                   [i \in 1..Len(table.col_widths) |->
                      min_width(table, i, seen_fonts)])

\* a column width as a number of hundredths of a point, rounded down:
\* a line of whole hundredths fits a width exactly when it fits this
whole_width(fit, ci) == fit.nums[ci] \div fit.den

whole_widths(fit) == [i \in 1..Len(fit.nums) |-> whole_width(fit, i)]

\* pdf.rs 593-602: a paragraph of font_size and line_h, wrapped to built,
\* added to the cell
cell_add(acc, built, font_size, line_h) ==
  [total_h |-> acc.total_h + Len(built) * line_h,
   all_lines |-> acc.all_lines \o built,
   first_font_size |-> IF acc.all_lines = <<>> THEN font_size
                       ELSE acc.first_font_size,
   first_line_h |-> IF acc.all_lines = <<>> THEN line_h
                    ELSE acc.first_line_h]

\* pdf.rs 587-591
cell_font_size(para) ==
  IF para.runs = <<>> THEN 1200 ELSE para.runs[1].font_size

RECURSIVE cell_paragraphs(_, _, _, _, _, _, _)
\* the paragraph loop of a cell (pdf.rs 586-603); acc is [total_h,
\* all_lines, first_font_size, first_line_h]
cell_paragraphs(acc, paragraphs, pi, cell_text_w, doc, seen_fonts, cell_src) ==
  IF pi > Len(paragraphs) THEN acc
  ELSE cell_paragraphs(
         cell_add(acc,
                  IF paragraphs[pi].runs # <<>>
                  THEN mark_lines(
                         build_paragraph_lines(paragraphs[pi].runs,
                                               seen_fonts, cell_text_w),
                         Append(cell_src, pi))
                  ELSE <<>>,
                  cell_font_size(paragraphs[pi]),
                  line_height(cell_font_size(paragraphs[pi]),
                              font_metric(paragraphs[pi].runs, seen_fonts,
                                          "line_h_ratio"),
                              unwrap_or(paragraphs[pi].line_spacing,
                                        doc.line_spacing))),
         paragraphs, pi + 1, cell_text_w, doc, seen_fonts, cell_src)

\* the height of a row without its border
row_height_no_border(max_h) == max_h

\* pdf.rs 611
row_height(max_h) == max_h + TABLE_BORDER_WIDTH

\* pdf.rs 605-614: the layout of a row whose cells were laid out
row_layout(cells) ==
  [height |->
     row_height(SetMax({0} \cup {cells[ci].total_h : ci \in 1..Len(cells)})),
   cell_lines |-> [ci \in 1..Len(cells) |->
                     [lines |-> cells[ci].all_lines,
                      line_h |-> cells[ci].first_line_h,
                      font_size |-> cells[ci].first_font_size]]]

\* pdf.rs 563-616; col_widths in whole hundredths
compute_row_layouts(table, col_widths, doc, seen_fonts) ==
  [ri \in 1..Len(table.rows) |->
     row_layout(
       [ci \in 1..Len(table.rows[ri].cells) |->
          cell_paragraphs(
            [total_h |-> TABLE_CELL_PAD_TOP + TABLE_CELL_PAD_BOTTOM,
             all_lines |-> <<>>, first_font_size |-> 1200,
             first_line_h |-> 1440],
            table.rows[ri].cells[ci].paragraphs, 1,
            IF ci <= Len(col_widths) THEN col_widths[ci]
            ELSE table.rows[ri].cells[ci].width,
            doc, seen_fonts, <<ri, ci>>)])]

\* ------------------------------------------------------------------------
\* Pagination: the block loop of render (pdf.rs 904-1174)
\* The loop state is [all_contents, current_content, slot_top,
\* prev_space_after]; decision records, for the properties, what the last
\* paragraph step decided.
\* ------------------------------------------------------------------------
page_top(doc) == doc.page_height - doc.margin_top

\* pdf.rs 922, 991, 1082, 641: within 1pt of the top of the page
at_top(slot_top, doc) == Abs(slot_top - page_top(doc)) < 100

with_block(ops, block_idx) ==
  [i \in 1..Len(ops) |->
     [kind |-> "line", block |-> block_idx, src |-> ops[i].src,
      idx |-> ops[i].idx, last |-> ops[i].last, y |-> ops[i].y,
      pitch |-> ops[i].pitch,
      is_justified |-> ops[i].is_justified,
      extra_per_gap |-> ops[i].extra_per_gap, shown |-> ops[i].shown,
      set_font |-> ops[i].set_font, chunk_src |-> ops[i].chunk_src,
      x |-> ops[i].x]]

\* pdf.rs 910-915
adjacent_para(doc, idx) ==
  IF idx < 1 \/ idx > Len(doc.blocks) THEN NoneV
  ELSE IF doc.blocks[idx].kind = "Paragraph" THEN Some(doc.blocks[idx])
       ELSE NoneV

\* pdf.rs 1011-1015
lines_that_fit(available, first_line_h, line_h) ==
  IF line_h > 0 /\ available >= first_line_h
  THEN 1 + ((available - first_line_h) \div line_h)
  ELSE 0

\* the clamp that leaves one line for the next page
orphan_clamp_one(fit, n) ==
  IF fit > 0 /\ Max(n - fit, 0) < 1 THEN Max(n - 1, 0) ELSE fit

\* pdf.rs 1018-1020 (saturating_sub)
orphan_clamp(fit, n) ==
  IF fit > 0 /\ Max(n - fit, 0) < 2 THEN Max(n - 2, 0) ELSE fit

\* a split that keeps a single line
can_split_one(fit, n) == fit >= 1 /\ fit < n

\* pdf.rs 1022
can_split(fit, n) == fit >= 2 /\ fit < n

\* pdf.rs 993-1004
keep_next_extra(para, next_para, effective_space_after, seen_fonts) ==
  IF para.keep_next /\ next_para # NoneV
  THEN LET next == next_para[1]
           m == tallest_run_metrics(next.runs, seen_fonts)
           next_inter == Max(effective_space_after, next.space_before)
           next_first_line_h ==
             IF m.line_h_ratio = NoneV THEN (m.font_size * 12) \div 10
             ELSE (m.font_size * m.line_h_ratio[1]) \div 1000
       IN next_inter + next_first_line_h
  ELSE 0

\* the list label drawn at the first baseline (pdf.rs 1028-1037, 1116-1125);
\* label_for_run looks the first run's font up
label_ops(para, seen_fonts, block_idx, baseline_y) ==
  IF para.list_label # <<>>
  THEN <<[kind |-> "label", block |-> block_idx,
          font |-> seen_fonts[font_key(para.runs[1])].pdf_name,
          y |-> baseline_y, shown |-> to_winansi_bytes(para.list_label)]>>
  ELSE <<>>

\* the page in progress put in the place of the last finished page
new_page_reopening(st, doc) ==
  [st EXCEPT !.all_contents = IF @ = <<>> THEN <<st.current_content>>
                              ELSE [@ EXCEPT ![Len(@)] = st.current_content],
             !.current_content = <<>>,
             !.slot_top = page_top(doc)]

\* the page is finished and a new one started
\* (all_contents.push(mem::replace(content, Content::new())))
new_page(st, doc) ==
  [st EXCEPT !.all_contents = Append(@, st.current_content),
             !.current_content = <<>>,
             !.slot_top = page_top(doc)]

draw(st, ops) == [st EXCEPT !.current_content = @ \o ops]

\* pdf.rs 920-928: the page break before the paragraph
page_break_before(st, doc, para) ==
  IF para.page_break_before
  THEN [(IF ~at_top(st.slot_top, doc) THEN new_page(st, doc) ELSE st)
          EXCEPT !.prev_space_after = 0]
  ELSE st

\* the paragraph taken to carry the break alone only if it has no run
only_break_no_runs(para) ==
  para.page_break_before /\ para.runs = <<>>

\* pdf.rs 929-934: a paragraph that only carries the page break
only_break(para) ==
  /\ para.page_break_before
  /\ \A i \in 1..Len(para.runs) :
       para.runs[i].is_tab \/ para.runs[i].text = <<>>

\* pdf.rs 937-946
effective_space_before(para, prev_para) ==
  IF para.contextual_spacing /\ prev_para # NoneV
     /\ prev_para[1].contextual_spacing
  THEN 0 ELSE para.space_before

\* pdf.rs 947-956
effective_space_after(para, next_para) ==
  IF para.contextual_spacing /\ next_para # NoneV
     /\ next_para[1].contextual_spacing
  THEN 0 ELSE para.space_after

\* pdf.rs 970-982: the lines of the paragraph
paragraph_lines(para, doc, seen_fonts) ==
  IF para.image # NoneV \/ para.runs = <<>> THEN <<>>
  ELSE mark_lines(
         IF \E i \in 1..Len(para.runs) : para.runs[i].is_tab
         THEN build_tabbed_line(para.runs, seen_fonts, para.tab_stops,
                                para.indent_left)
         ELSE build_paragraph_lines(
                para.runs, seen_fonts,
                Max(doc.page_width - doc.margin_left - doc.margin_right
                      - para.indent_left, 100)),
         <<>>)

\* pdf.rs 959-988, 1008-1010, 1024: what the placement needs to know of
\* the paragraph, given its tallest-run metrics m and its lines
measured(para, doc, m, lines) ==
  [lines |-> lines,
   font_size |-> m.font_size,
   line_h |-> line_height(m.font_size, m.line_h_ratio,
                          unwrap_or(para.line_spacing, doc.line_spacing)),
   first_line_h |-> IF m.line_h_ratio = NoneV THEN m.font_size
                    ELSE (m.font_size * m.line_h_ratio[1]) \div 1000,
   ascent |-> (m.font_size * unwrap_or(m.ascender_ratio, 750)) \div 1000,
   content_h |->
     IF para.image # NoneV \/ para.runs = <<>>
     THEN Max(para.content_height, doc.line_pitch)
     ELSE Len(lines)
            * line_height(m.font_size, m.line_h_ratio,
                          unwrap_or(para.line_spacing, doc.line_spacing)),
   text_x |-> doc.margin_left + para.indent_left,
   text_width |-> Max(doc.page_width - doc.margin_left - doc.margin_right
                        - para.indent_left, 100)]

\* the paragraph taken not to fit at the top of a page too
not_fit_at_top_too(st, doc, g, inter_gap, extra) ==
  st.slot_top - (inter_gap + g.content_h) - extra < doc.margin_bottom

\* pdf.rs 1006
not_fit_at(st, doc, g, inter_gap, extra) ==
  /\ ~at_top(st.slot_top, doc)
  /\ st.slot_top - (inter_gap + g.content_h) - extra < doc.margin_bottom

\* pdf.rs 1007-1020: the lines kept on the page if the paragraph is split
fit_at(st, doc, g, inter_gap) ==
  orphan_clamp(lines_that_fit(st.slot_top - inter_gap - doc.margin_bottom,
                              g.first_line_h, g.line_h),
               Len(g.lines))

\* pdf.rs 1023-1072: fit lines stay, the page is pushed, the rest follows
split_paragraph(st, doc, para, g, seen_fonts, block_idx, split_top, fit, space_after) ==
  [draw(new_page(
          draw(st,
               label_ops(para, seen_fonts, block_idx, split_top - g.ascent)
                 \o with_block(
                      render_paragraph_lines(SubSeq(g.lines, 1, fit),
                                             para.alignment, g.text_x,
                                             g.text_width,
                                             split_top - g.ascent, g.line_h,
                                             Len(g.lines), 0),
                      block_idx)),
          doc),
        with_block(
          render_paragraph_lines(SubSeq(g.lines, fit + 1, Len(g.lines)),
                                 para.alignment, g.text_x, g.text_width,
                                 page_top(doc) - g.ascent, g.line_h,
                                 Len(g.lines), fit),
          block_idx))
     EXCEPT !.slot_top = page_top(doc) - (Len(g.lines) - fit) * g.line_h,
            !.prev_space_after = space_after]

\* pdf.rs 1089-1138: the image, the placeholder or the text below top
body_ops(para, g, seen_fonts, block_idx, top) ==
  IF (para.image # NoneV \/ para.runs = <<>>) /\ para.content_height > 0
  THEN IF para.image # NoneV
       THEN <<[kind |-> "image", block |-> block_idx,
               y |-> top - para.image[1].display_height,
               h |-> para.image[1].display_height]>>
       ELSE <<[kind |-> "rect", block |-> block_idx,
               y |-> top - g.content_h, h |-> g.content_h]>>
  ELSE IF g.lines # <<>>
       THEN label_ops(para, seen_fonts, block_idx, top - g.ascent)
              \o with_block(
                   render_paragraph_lines(g.lines, para.alignment, g.text_x,
                                          g.text_width, top - g.ascent,
                                          g.line_h, Len(g.lines), 0),
                   block_idx)
       ELSE <<>>

\* pdf.rs 1141-1154
border_ops(para, g, block_idx, top) ==
  IF para.border_bottom # NoneV
  THEN <<[kind |-> "border", block |-> block_idx,
          y |-> top - g.content_h - para.border_bottom[1].space_pt
                  - para.border_bottom[1].width_pt,
          h |-> para.border_bottom[1].width_pt]>>
  ELSE <<>>

\* pdf.rs 1089-1157: the whole paragraph drawn below top
whole_paragraph(st, para, g, seen_fonts, block_idx, top, space_after) ==
  [draw(st, body_ops(para, g, seen_fonts, block_idx, top)
              \o border_ops(para, g, block_idx, top))
     EXCEPT !.slot_top = top - g.content_h,
            !.prev_space_after = space_after]

\* the gap kept at the top of every page
gap_above_kept(st, doc, inter_gap) == inter_gap

\* pdf.rs 1081-1087: no gap above a paragraph that opens a later page
gap_above(st, doc, inter_gap) ==
  IF st.all_contents # <<>> /\ at_top(st.slot_top, doc) THEN 0
  ELSE inter_gap

\* pdf.rs 1075-1157: the paragraph is not split; st is the state after the
\* page was pushed if the paragraph did not fit
unsplit_paragraph(st, doc, para, g, seen_fonts, block_idx, inter_gap, space_after) ==
  whole_paragraph(st, para, g, seen_fonts, block_idx,
                  st.slot_top - gap_above(st, doc, inter_gap), space_after)

\* pdf.rs 1006-1157 once not_fit and fit are known
placed(st, doc, para, g, seen_fonts, block_idx, inter_gap, space_after, not_fit, fit) ==
  [st |->
     IF not_fit /\ can_split(fit, Len(g.lines))
     THEN split_paragraph(st, doc, para, g, seen_fonts, block_idx,
                          st.slot_top - inter_gap, fit, space_after)
     ELSE unsplit_paragraph(IF not_fit THEN new_page(st, doc) ELSE st, doc,
                            para, g, seen_fonts, block_idx,
                            IF not_fit THEN 0 ELSE inter_gap, space_after),
   decision |->
     Some([block |-> block_idx, not_fit |-> not_fit, n |-> Len(g.lines),
           fit_raw |-> lines_that_fit(
                         st.slot_top - inter_gap - doc.margin_bottom,
                         g.first_line_h, g.line_h),
           split |-> not_fit /\ can_split(fit, Len(g.lines)),
           pages_before |-> Len(st.all_contents),
           room |-> st.slot_top - inter_gap - doc.margin_bottom,
           first_line_h |-> g.first_line_h, line_h |-> g.line_h,
           ascent |-> g.ascent])]

\* pdf.rs 958-1157 for the measured paragraph
place_paragraph(st, doc, para, g, seen_fonts, block_idx, inter_gap, space_after) ==
  placed(st, doc, para, g, seen_fonts, block_idx, inter_gap, space_after,
         not_fit_at(st, doc, g, inter_gap,
                    keep_next_extra(para, adjacent_para(doc, block_idx + 1),
                                    space_after, seen_fonts)),
         fit_at(st, doc, g, inter_gap))

\* pdf.rs 936-1157: the paragraph after its page break
laid_paragraph(st, doc, para, seen_fonts, block_idx) ==
  place_paragraph(
    st, doc, para,
    measured(para, doc, tallest_run_metrics(para.runs, seen_fonts),
             paragraph_lines(para, doc, seen_fonts)),
    seen_fonts, block_idx,
    Max(st.prev_space_after,
        effective_space_before(para, adjacent_para(doc, block_idx - 1))),
    effective_space_after(para, adjacent_para(doc, block_idx + 1)))

\* pdf.rs 919-1158: one paragraph block
render_paragraph(st0, doc, seen_fonts, block_idx) ==
  IF only_break(doc.blocks[block_idx])
  THEN [st |-> page_break_before(st0, doc, doc.blocks[block_idx]),
        decision |-> NoneV]
  ELSE laid_paragraph(page_break_before(st0, doc, doc.blocks[block_idx]),
                      doc, doc.blocks[block_idx], seen_fonts, block_idx)

\* the cells of one row: their text (pdf.rs 652-688)
row_cell_ops(row, layout, col_widths, doc, seen_fonts, row_top, block_idx) ==
  [ci \in 1..Min(Len(row.cells), Len(layout.cell_lines)) |->
     LET cell == row.cells[ci]
         cl == layout.cell_lines[ci]
         col_w == IF ci <= Len(col_widths) THEN col_widths[ci] ELSE cell.width
         cell_x == doc.margin_left
                     + SumSeq([k \in 1..(ci - 1) |->
                                 IF k <= Len(col_widths) THEN col_widths[k]
                                 ELSE row.cells[k].width])
         text_x == cell_x + TABLE_CELL_PAD_LEFT
         first_run ==
           IF cell.paragraphs = <<>> THEN NoneV
           ELSE IF cell.paragraphs[1].runs = <<>> THEN NoneV
                ELSE Some(cell.paragraphs[1].runs[1])
         ascender_ratio ==
           IF first_run = NoneV THEN 750
           ELSE IF font_key(first_run[1]) \notin DOMAIN seen_fonts THEN 750
                ELSE unwrap_or(seen_fonts[font_key(first_run[1])].ascender_ratio,
                               750)
         baseline_y == row_top - TABLE_CELL_PAD_TOP
                         - (cl.font_size * ascender_ratio) \div 1000
         alignment == IF cell.paragraphs = <<>> THEN "Left"
                      ELSE cell.paragraphs[1].alignment
     IN IF cl.lines # <<>>
           /\ ~(\A k \in 1..Len(cl.lines) : cl.lines[k].chunks = <<>>)
        THEN with_block(
               render_paragraph_lines(cl.lines, alignment, text_x, col_w,
                                      baseline_y, cl.line_h, Len(cl.lines), 0),
               block_idx)
        ELSE <<>>]

RECURSIVE Flatten(_)
Flatten(ss) == IF ss = <<>> THEN <<>> ELSE Head(ss) \o Flatten(Tail(ss))

\* the borders of one row (pdf.rs 692-705)
row_border_ops(row, row_bottom, row_h, block_idx, ri) ==
  [ci \in 1..Len(row.cells) |->
     [kind |-> "cellborder", block |-> block_idx, row |-> ri, col |-> ci,
      y |-> row_bottom, h |-> row_h]]

\* a page pushed for every row that does not fit, at the top of a page too
row_breaks_at_top_too(slot_top, row_h, doc) ==
  slot_top - row_h < doc.margin_bottom

\* pdf.rs 641-643
row_breaks(slot_top, row_h, doc) ==
  ~at_top(slot_top, doc) /\ slot_top - row_h < doc.margin_bottom

RECURSIVE table_rows(_, _, _, _, _, _, _, _)
\* the row loop of render_table (pdf.rs 632-708)
table_rows(st, table, layouts, col_widths, doc, seen_fonts, block_idx, ri) ==
  IF ri > Min(Len(table.rows), Len(layouts)) THEN st
  ELSE LET row_h == layouts[ri].height
           st1 == IF row_breaks(st.slot_top, row_h, doc)
                  THEN new_page(st, doc)
                  ELSE st
           row_top == st1.slot_top
           row_bottom == row_top - row_h
           ops == Flatten(row_cell_ops(table.rows[ri], layouts[ri], col_widths,
                                       doc, seen_fonts, row_top, block_idx))
                    \o row_border_ops(table.rows[ri], row_bottom, row_h,
                                      block_idx, ri)
       IN table_rows([draw(st1, ops) EXCEPT !.slot_top = row_bottom],
                     table, layouts, col_widths, doc, seen_fonts, block_idx,
                     ri + 1)

\* pdf.rs 618-709 and 1160-1171: one table block
render_table(st, doc, seen_fonts, block_idx) ==
  LET table == doc.blocks[block_idx]
      col_widths == whole_widths(auto_fit_columns(table, seen_fonts))
      row_layouts == compute_row_layouts(table, col_widths, doc, seen_fonts)
      after == table_rows([st EXCEPT !.slot_top = @ - st.prev_space_after],
                          table, row_layouts, col_widths, doc, seen_fonts,
                          block_idx, 1)
  IN [after EXCEPT !.prev_space_after = 0]

\* ------------------------------------------------------------------------
\* Headers and footers (pdf.rs 711-796, 1176-1224)
\* ------------------------------------------------------------------------
RECURSIVE to_string(_)
\* usize::to_string: the decimal digits
to_string(n) ==
  IF n < 10 THEN <<48 + n>>
  ELSE Append(to_string(n \div 10), 48 + (n % 10))

\* the page count written for both fields
substitute_fields_count(rs, page_num, total_pages) ==
  [i \in 1..Len(rs) |->
     IF rs[i].field_code # NoneV
     THEN [rs[i] EXCEPT !.text = to_string(total_pages), !.is_tab = FALSE,
                        !.field_code = NoneV]
     ELSE [rs[i] EXCEPT !.field_code = NoneV]]

\* pdf.rs 728-766
substitute_fields(rs, page_num, total_pages) ==
  [i \in 1..Len(rs) |->
     IF rs[i].field_code # NoneV
     THEN [rs[i] EXCEPT
             !.text = IF rs[i].field_code[1] = "Page"
                      THEN to_string(page_num)
                      ELSE to_string(total_pages),
             !.is_tab = FALSE,
             !.field_code = NoneV]
     ELSE [rs[i] EXCEPT !.field_code = NoneV]]

RECURSIVE header_footer_paragraphs(_, _, _, _, _, _, _)
\* pdf.rs 722-795: the drawn lines of the paragraphs from pi on
header_footer_paragraphs(hf, pi, seen_fonts, doc, is_header, page_num, total_pages) ==
  IF pi > Len(hf.paragraphs) THEN <<>>
  ELSE LET para == hf.paragraphs[pi]
           text_width == doc.page_width - doc.margin_left - doc.margin_right
           substituted_runs == substitute_fields(para.runs, page_num,
                                                 total_pages)
           lines == mark_lines(build_paragraph_lines(substituted_runs,
                                                     seen_fonts, text_width),
                               <<IF is_header THEN "header" ELSE "footer", pi>>)
           m == tallest_run_metrics(substituted_runs, seen_fonts)
           ascender_ratio == unwrap_or(m.ascender_ratio, 750)
           baseline_y ==
             IF is_header
             THEN doc.page_height - doc.header_margin
                    - (m.font_size * ascender_ratio) \div 1000
             ELSE doc.footer_margin
                    + (m.font_size * (1000 - ascender_ratio)) \div 1000
           line_h == line_height(m.font_size,
                                 font_metric(substituted_runs, seen_fonts,
                                             "line_h_ratio"),
                                 unwrap_or(para.line_spacing, doc.line_spacing))
       IN (IF para.runs = <<>> THEN <<>>
           ELSE with_block(
                  render_paragraph_lines(lines, para.alignment,
                                         doc.margin_left, text_width,
                                         baseline_y, line_h, Len(lines), 0),
                  0))
          \o header_footer_paragraphs(hf, pi + 1, seen_fonts, doc, is_header,
                                      page_num, total_pages)

render_header_footer(hf, seen_fonts, doc, is_header, page_num, total_pages) ==
  header_footer_paragraphs(hf, 1, seen_fonts, doc, is_header, page_num,
                           total_pages)

\* the default variant standing in for an absent first-page variant
hf_variant_or_default(is_first, different_first_page, first, default) ==
  IF is_first /\ different_first_page /\ first # NoneV THEN first
  ELSE default

\* pdf.rs 1189-1193 and 1207-1211
hf_variant(is_first, different_first_page, first, default) ==
  IF is_first /\ different_first_page THEN first ELSE default

\* pdf.rs 1177-1224: every page with its header and footer drawn
with_headers_footers(contents, doc, seen_fonts) ==
  LET total_pages == Len(contents)
      has_hf == \/ doc.header_default # NoneV
                \/ doc.header_first # NoneV
                \/ doc.footer_default # NoneV
                \/ doc.footer_first # NoneV
  IN IF ~has_hf THEN contents
     ELSE [page_idx \in 1..Len(contents) |->
             LET is_first == page_idx = 1
                 header == hf_variant(is_first, doc.different_first_page,
                                      doc.header_first, doc.header_default)
                 footer == hf_variant(is_first, doc.different_first_page,
                                      doc.footer_first, doc.footer_default)
             IN contents[page_idx]
                  \o (IF header # NoneV
                      THEN render_header_footer(header[1], seen_fonts, doc,
                                                TRUE, page_idx, total_pages)
                      ELSE <<>>)
                  \o (IF footer # NoneV
                      THEN render_header_footer(footer[1], seen_fonts, doc,
                                                FALSE, page_idx, total_pages)
                      ELSE <<>>)]

\* pdf.rs 1226-1267: the bytes of the PDF, told by the pages they hold
finish(contents) == [pages |-> contents]

\* pdf.rs 815-844: every run of the body, the table cells and the four
\* header/footer variants, in that order
paragraph_runs(paragraphs) ==
  Flatten([i \in 1..Len(paragraphs) |-> paragraphs[i].runs])

block_runs(block) ==
  IF block.kind = "Paragraph" THEN block.runs
  ELSE Flatten([ri \in 1..Len(block.rows) |->
                  Flatten([ci \in 1..Len(block.rows[ri].cells) |->
                             paragraph_runs(
                               block.rows[ri].cells[ci].paragraphs)])])

hf_runs(hf) == IF hf = NoneV THEN <<>> ELSE paragraph_runs(hf[1].paragraphs)

\* the runs of the blocks alone
all_runs_of_blocks(doc) ==
  Flatten([i \in 1..Len(doc.blocks) |-> block_runs(doc.blocks[i])])

all_runs(doc) ==
  Flatten([i \in 1..Len(doc.blocks) |-> block_runs(doc.blocks[i])])
    \o hf_runs(doc.header_default) \o hf_runs(doc.header_first)
    \o hf_runs(doc.footer_default) \o hf_runs(doc.footer_first)

\* ------------------------------------------------------------------------
\* The conversion call (lib.rs 10-14)
\* An input file is told by how far docx::parse gets with it and by the
\* Document it parses to: [opens, is_zip, has_document_xml, well_formed,
\* has_body, document].
\* ------------------------------------------------------------------------
\* parse that takes a document without w:body
parse_any_root(file) ==
  IF ~file.opens THEN Err("Io")
  ELSE IF ~file.is_zip THEN Err("InvalidDocx")
  ELSE IF ~file.has_document_xml THEN Err("InvalidDocx")
  ELSE IF ~file.well_formed THEN Err("Xml")
  ELSE Ok(file.document)

\* docx.rs 821-1048: the errors of parse, in the order it meets them
parse(file) ==
  IF ~file.opens THEN Err("Io")
  ELSE IF ~file.is_zip THEN Err("InvalidDocx")
  ELSE IF ~file.has_document_xml THEN Err("InvalidDocx")
  ELSE IF ~file.well_formed THEN Err("Xml")
  ELSE IF ~file.has_body THEN Err("Pdf")
  ELSE Ok(file.document)

\* what std::fs::write leaves behind when it fails: the file as it was, or
\* the file created or cut to nothing, or a part of the bytes
Truncated == [pages |-> <<>>, truncated |-> TRUE]

\* lib.rs 13: std::fs::write(output, bytes); outcome is "written",
\* "refused" (the file could not be created) or "cut" (the write stopped)
fs_write(file, bytes, outcome) ==
  CASE outcome = "written" -> [file |-> Some(bytes), ret |-> Ok(<<>>)]
    [] outcome = "refused" -> [file |-> file, ret |-> Err("Io")]
    [] outcome = "cut" -> [file |-> Some(Truncated), ret |-> Err("Io")]

\* ------------------------------------------------------------------------
\* State
\* ------------------------------------------------------------------------
VARIABLES
  runs,              \* the run list handed to build_paragraph_lines
  max_width,         \* its max_width
  lines,             \* the lines it returned
  tab_stops,         \* the tab stops handed to build_tabbed_line
  indent_left,       \* its indent_left
  current_x,         \* the cursor handed to find_next_tab_stop
  next_stop,         \* the TabStop it returned: NoneV before any call
  doc,               \* the Document handed to render
  seen_fonts,        \* render's font map, filled by its first phase
  phase,             \* where render is: "fonts", "blocks", "hf", "done"
  block_idx,         \* the block the loop is at (1-based)
  all_contents,      \* the finished pages
  current_content,   \* the page being drawn
  slot_top,          \* the top of the free space on the current page
  prev_space_after,  \* the space after the previous block
  decision,          \* what the last paragraph step decided (ghost)
  result,            \* what render returned: NoneV until it returns
  table,             \* the Table handed to auto_fit_columns
  widths,            \* the column widths it returned, as [nums, den]
  row_layouts,       \* what compute_row_layouts returned for them
  font_files,        \* the font files of the host: path -> font data
  embedded,          \* Document.embedded_fonts
  FONT_INDEX,        \* the OnceLock of fonts.rs 21: NoneV until first use
  registered,        \* the calls of register_font so far and their entries
  process,           \* the number of the program run that is going on
  caller,            \* the threads calling get_font_index: where each is
  scans,             \* how often scan_font_dirs has run in this run
  input,             \* the file at the input path of convert_docx_to_pdf
  output,            \* the file at its output path: NoneV if there is none
  returned           \* what convert_docx_to_pdf returned: NoneV until then

wrapVars == <<runs, max_width, lines, tab_stops, indent_left, current_x,
              next_stop>>

renderVars == <<doc, seen_fonts, phase, block_idx, all_contents,
                current_content, slot_top, prev_space_after, decision,
                result>>

tableVars == <<table, widths, row_layouts>>

fontVars == <<font_files, embedded, FONT_INDEX, registered, process, caller,
              scans>>

convertVars == <<input, output, returned>>

vars == <<wrapVars, renderVars, tableVars, fontVars, convertVars>>

\* ------------------------------------------------------------------------
\* Line breaking on its own: build_paragraph_lines applied to every run
\* list of at most MaxRuns runs
\* ------------------------------------------------------------------------
\* no document is being rendered
RenderIdle ==
  /\ doc = NoneV
  /\ seen_fonts = NoneV
  /\ phase = "idle"
  /\ block_idx = 0
  /\ all_contents = <<>>
  /\ current_content = <<>>
  /\ slot_top = 0
  /\ prev_space_after = 0
  /\ decision = NoneV
  /\ result = NoneV

\* no table is being laid out on its own
TableIdle ==
  /\ table = NoneV
  /\ widths = NoneV
  /\ row_layouts = NoneV

\* no font is being registered on its own
FontIdle ==
  /\ font_files = NoneV
  /\ embedded = NoneV
  /\ FONT_INDEX = NoneV
  /\ registered = <<>>
  /\ process = 0
  /\ caller = <<>>
  /\ scans = 0

\* no run list is being wrapped on its own
WrapIdle ==
  /\ runs = <<>>
  /\ max_width = 0
  /\ lines = <<>>
  /\ tab_stops = <<>>
  /\ indent_left = 0
  /\ current_x = 0
  /\ next_stop = NoneV

\* no file is being converted
ConvertIdle ==
  /\ input = NoneV
  /\ output = NoneV
  /\ returned = NoneV

MaxRuns == 2

MaxTextLen == 3

\* ' ' and 'a'
WrapChars == {32, 97}

\* the widths tried: narrower than one word, exactly "a a", wide
WrapWidths == {500, 1390, 2500}

Run(text, font_size, font_name, bold, italic, is_tab, vertical_align) ==
  [text |-> text, font_size |-> font_size, font_name |-> font_name,
   bold |-> bold, italic |-> italic, is_tab |-> is_tab,
   vertical_align |-> vertical_align, field_code |-> NoneV]

TabRun == Run(<<>>, 1000, <<"Helvetica">>, FALSE, FALSE, TRUE, "Baseline")

\* 10pt runs: a face nothing provides (generic widths) and an embedded bold
WrapTextRuns ==
  {Run(t, 1000, <<"Helvetica">>, FALSE, FALSE, FALSE, "Baseline") :
     t \in SeqsUpTo(WrapChars, MaxTextLen)}
  \cup {Run(t, 1000, <<"Emb", "Helvetica">>, TRUE, FALSE, FALSE, "Baseline") :
     t \in SeqsUpTo(WrapChars, MaxTextLen)}

\* the document's embedded fonts: "Emb" bold, space 500, glyphs 1000
DocEmbeddedFonts ==
  (<<"emb", TRUE, FALSE>> :>
     <<Face("Emb", TRUE, FALSE, 800, -200, 100, 500, 1000)>>)

NoIndex == [k \in {} |-> k]

WrapFonts(rs) == collect_fonts(rs, DocEmbeddedFonts, NoIndex, NoIndex).seen_fonts

Wrapped(rs, w) == build_paragraph_lines(rs, WrapFonts(rs), w)

WrapInit ==
  /\ runs = <<>>
  /\ max_width \in WrapWidths
  /\ lines = Wrapped(<<>>, max_width)
  /\ tab_stops = <<>>
  /\ indent_left = 0
  /\ current_x = 0
  /\ next_stop = NoneV
  /\ RenderIdle
  /\ TableIdle
  /\ FontIdle
  /\ ConvertIdle

\* the caller appends a text run and lays the paragraph out again
AppendTextRun ==
  /\ Len(runs) < MaxRuns
  /\ \E r \in WrapTextRuns :
       /\ runs' = Append(runs, r)
       /\ lines' = Wrapped(Append(runs, r), max_width)
  /\ UNCHANGED <<max_width, tab_stops, indent_left, current_x, next_stop,
                 renderVars, tableVars, fontVars, convertVars>>

\* the caller appends a tab run and lays the paragraph out again
AppendTabRun ==
  /\ Len(runs) < MaxRuns
  /\ runs' = Append(runs, TabRun)
  /\ lines' = Wrapped(Append(runs, TabRun), max_width)
  /\ UNCHANGED <<max_width, tab_stops, indent_left, current_x, next_stop,
                 renderVars, tableVars, fontVars, convertVars>>

WrapNext == AppendTextRun \/ AppendTabRun

SpecWrap == WrapInit /\ [][WrapNext]_vars

\* ------------------------------------------------------------------------
\* Properties of line breaking
\* ------------------------------------------------------------------------
\* C1: every chunk of every wrapped line ends at or before max_width,
\* except the chunk of a line that holds exactly one chunk, wider than
\* max_width, which then sits at offset 0.
C1_NoOverflow ==
  \A li \in 1..Len(lines) :
    \A ci \in 1..Len(lines[li].chunks) :
      LET c == lines[li].chunks[ci]
      IN \/ c.x_offset + c.width <= max_width
         \/ /\ Len(lines[li].chunks) = 1
            /\ c.width > max_width
            /\ c.x_offset = 0

\* an over-wide word alone on its line, next to a line of two chunks
C1_Witness ==
  /\ \E li \in 1..Len(lines) :
       /\ Len(lines[li].chunks) = 1
       /\ lines[li].chunks[1].width > max_width
  /\ \E li \in 1..Len(lines) : Len(lines[li].chunks) >= 2

no_words(rs) ==
  \A ri \in 1..Len(rs) :
    rs[ri].is_tab \/ \A k \in 1..Len(rs[ri].text) : is_whitespace(rs[ri].text[k])

\* C2: build_paragraph_lines never returns zero lines, and a run list
\* without any word (empty, whitespace only, empty texts, tab runs) gives
\* exactly one line with no chunk and total_width 0.
C2_NeverZeroLines ==
  /\ Len(lines) >= 1
  /\ no_words(runs) =>
       /\ Len(lines) = 1
       /\ lines[1].chunks = <<>>
       /\ lines[1].total_width = 0

\* a whitespace-only run and a tab run gave the one empty line
C2_Witness ==
  /\ Len(runs) = 2
  /\ \E ri \in 1..2 : runs[ri].is_tab
  /\ \E ri \in 1..2 : ~runs[ri].is_tab /\ Len(runs[ri].text) > 0
  /\ no_words(runs)
  /\ Len(lines) = 1
  /\ lines[1].chunks = <<>>

run_space_w(rs, ri) ==
  space_width(WrapFonts(rs)[font_key(rs[ri])], effective_font_size(rs[ri]))

\* the advance between two neighbouring chunks of a line
gap_before(line, ci) ==
  line.chunks[ci].x_offset
    - (line.chunks[ci - 1].x_offset + line.chunks[ci - 1].width)

\* C10: where the last chunk of a run and the first word of the next run
\* are neighbours on a line, the advance between them is the new run's
\* space if the new run starts with whitespace, else the preceding run's
\* space if the preceding run ended with whitespace, else nothing.
C10_InterRunSpace ==
  \A li \in 1..Len(lines) :
    \A ci \in 2..Len(lines[li].chunks) :
      LET c1 == lines[li].chunks[ci - 1]
          c2 == lines[li].chunks[ci]
      IN (c2.word = 0 /\ c2.run = c1.run + 1) =>
           gap_before(lines[li], ci) =
             IF starts_with_ws(runs[c2.run].text)
             THEN run_space_w(runs, c2.run)
             ELSE IF ends_with_ws(runs[c1.run].text)
                  THEN run_space_w(runs, c1.run)
                  ELSE 0

\* "a " in the generic face, then "a" in the embedded bold: one line, two
\* chunks, the first run's space (2.78pt, not 5pt) between them
C10_Witness ==
  /\ Len(runs) = 2
  /\ ends_with_ws(runs[1].text)
  /\ ~starts_with_ws(runs[2].text)
  /\ run_space_w(runs, 1) # run_space_w(runs, 2)
  /\ Len(lines) = 1
  /\ Len(lines[1].chunks) = 2
  /\ lines[1].chunks[1].run = 1
  /\ lines[1].chunks[2].run = 2
  /\ gap_before(lines[1], 2) = run_space_w(runs, 1)

\* ------------------------------------------------------------------------
\* Rendering a document: render (pdf.rs 798-1268) on every document of at
\* most MaxBlocks blocks
\* ------------------------------------------------------------------------
MaxBlocks == 3

MaxParaLines == 5

Paragraph(rs, alignment) ==
  [kind |-> "Paragraph", runs |-> rs, space_before |-> 0, space_after |-> 0,
   content_height |-> 0, alignment |-> alignment, indent_left |-> 0,
   indent_hanging |-> 0, list_label |-> <<>>, contextual_spacing |-> FALSE,
   keep_next |-> FALSE, line_spacing |-> NoneV, image |-> NoneV,
   border_bottom |-> NoneV, page_break_before |-> FALSE, tab_stops |-> <<>>]

TableCell(width, paragraphs) == [width |-> width, paragraphs |-> paragraphs]

TableRow(cells) == [cells |-> cells]

Table(col_widths, rows) ==
  [kind |-> "Table", col_widths |-> col_widths, rows |-> rows]

HeaderFooter(paragraphs) == [paragraphs |-> paragraphs]

RECURSIVE a_words(_)
\* "a a ... a", n words
a_words(n) ==
  IF n = 0 THEN <<>>
  ELSE IF n = 1 THEN <<97>>
       ELSE <<97, 32>> \o a_words(n - 1)

PlainRun(text) ==
  Run(text, 1000, <<"Helvetica">>, FALSE, FALSE, FALSE, "Baseline")

\* a justified paragraph of n lines on the page of RenderDoc, two words to
\* the line; the last line holds one word or two
JustifiedPara(n, full_last) ==
  Paragraph(<<PlainRun(a_words(IF full_last THEN 2 * n ELSE 2 * n - 1))>>,
            "Justify")

\* one row, one cell, two paragraphs: a justified one-line paragraph of two
\* words, then a one-word paragraph
TwoParagraphCellTable ==
  Table(<<1500>>,
        <<TableRow(<<TableCell(1500,
                               <<JustifiedPara(1, TRUE),
                                 Paragraph(<<PlainRun(a_words(1))>>,
                                           "Left")>>)>>)>>)

PageBreakPara ==
  [Paragraph(<<>>, "Left") EXCEPT !.page_break_before = TRUE]

RenderBlocks ==
  {JustifiedPara(n, FALSE) : n \in 1..MaxParaLines}
  \cup {JustifiedPara(1, TRUE)}
  \cup {[JustifiedPara(n, FALSE) EXCEPT !.keep_next = TRUE] : n \in {1, 4}}
  \cup {[JustifiedPara(1, FALSE) EXCEPT !.space_after = 600]}
  \cup {TwoParagraphCellTable, PageBreakPara}

PageField == [PlainRun(<<>>) EXCEPT !.field_code = Some("Page")]

\* a justified header "a a" followed by the page number
PageHeader ==
  HeaderFooter(<<Paragraph(<<PlainRun(a_words(2)), PageField>>, "Justify")>>)

\* a page of six 12pt lines, 15pt wide
RenderDoc(blocks, header) ==
  [page_width |-> 3500, page_height |-> 9200, margin_top |-> 1000,
   margin_bottom |-> 1000, margin_left |-> 1000, margin_right |-> 1000,
   line_pitch |-> 1200, line_spacing |-> 1000, blocks |-> blocks,
   embedded_fonts |-> DocEmbeddedFonts, header_margin |-> 500,
   footer_margin |-> 500, different_first_page |-> FALSE,
   header_default |-> header, header_first |-> NoneV,
   footer_default |-> NoneV, footer_first |-> NoneV]

RenderInit ==
  /\ \E blocks \in SeqsUpTo(RenderBlocks, MaxBlocks) :
       \E header \in {NoneV, Some(PageHeader)} :
         doc = RenderDoc(blocks, header)
  /\ seen_fonts = NoneV
  /\ phase = "fonts"
  /\ block_idx = 0
  /\ all_contents = <<>>
  /\ current_content = <<>>
  /\ slot_top = 0
  /\ prev_space_after = 0
  /\ decision = NoneV
  /\ result = NoneV
  /\ WrapIdle
  /\ TableIdle
  /\ FontIdle
  /\ ConvertIdle

loop_state ==
  [all_contents |-> all_contents, current_content |-> current_content,
   slot_top |-> slot_top, prev_space_after |-> prev_space_after]

set_loop_state(st) ==
  /\ all_contents' = st.all_contents
  /\ current_content' = st.current_content
  /\ slot_top' = st.slot_top
  /\ prev_space_after' = st.prev_space_after

\* phase 1 (pdf.rs 810-878) and the start of the block loop (904-909)
RegisterFonts ==
  /\ phase = "fonts"
  /\ seen_fonts' = collect_fonts(all_runs(doc), doc.embedded_fonts, NoIndex,
                                 NoIndex).seen_fonts
  /\ phase' = "blocks"
  /\ block_idx' = 1
  /\ slot_top' = page_top(doc)
  /\ UNCHANGED <<doc, all_contents, current_content, prev_space_after,
                 decision, result, wrapVars, tableVars, fontVars,
                 convertVars>>

\* one turn of the block loop on a paragraph (pdf.rs 919-1158)
RenderParagraph ==
  /\ phase = "blocks"
  /\ block_idx <= Len(doc.blocks)
  /\ doc.blocks[block_idx].kind = "Paragraph"
  /\ LET r == render_paragraph(loop_state, doc, seen_fonts, block_idx)
     IN /\ set_loop_state(r.st)
        /\ decision' = r.decision
  /\ block_idx' = block_idx + 1
  /\ UNCHANGED <<doc, seen_fonts, phase, result, wrapVars, tableVars,
                 fontVars, convertVars>>

\* one turn of the block loop on a table (pdf.rs 1160-1171)
RenderTable ==
  /\ phase = "blocks"
  /\ block_idx <= Len(doc.blocks)
  /\ doc.blocks[block_idx].kind = "Table"
  /\ set_loop_state(render_table(loop_state, doc, seen_fonts, block_idx))
  /\ decision' = NoneV
  /\ block_idx' = block_idx + 1
  /\ UNCHANGED <<doc, seen_fonts, phase, result, wrapVars, tableVars,
                 fontVars, convertVars>>

\* the last page is pushed (pdf.rs 1174)
FinishBlocks ==
  /\ phase = "blocks"
  /\ block_idx > Len(doc.blocks)
  /\ all_contents' = Append(all_contents, current_content)
  /\ current_content' = <<>>
  /\ phase' = "hf"
  /\ decision' = NoneV
  /\ UNCHANGED <<doc, seen_fonts, block_idx, slot_top, prev_space_after,
                 result, wrapVars, tableVars, fontVars, convertVars>>

\* headers and footers on every page, the pages put into the PDF and the
\* bytes returned (pdf.rs 1176-1268)
RenderHeadersFooters ==
  /\ phase = "hf"
  /\ all_contents' = with_headers_footers(all_contents, doc, seen_fonts)
  /\ result' = Ok(finish(with_headers_footers(all_contents, doc, seen_fonts)))
  /\ phase' = "done"
  /\ UNCHANGED <<doc, seen_fonts, block_idx, current_content, slot_top,
                 prev_space_after, decision, wrapVars, tableVars, fontVars,
                 convertVars>>

RenderNext ==
  \/ RegisterFonts
  \/ RenderParagraph
  \/ RenderTable
  \/ FinishBlocks
  \/ RenderHeadersFooters

SpecRender == RenderInit /\ [][RenderNext]_vars

\* every line drawn so far, in drawing order
drawn_lines ==
  LET ops == Flatten(all_contents) \o current_content
  IN SelectSeq(ops, LAMBDA op : op.kind = "line")

\* ------------------------------------------------------------------------
\* Properties of rendering
\* ------------------------------------------------------------------------
\* C3: no line that is the last line of its paragraph is drawn with extra
\* space between its chunks, wherever render_paragraph_lines was called
\* from: body paragraphs, both parts of a split paragraph, headers and
\* footers, and table cells holding several paragraphs.
C3_LastLineNeverJustified ==
  \A i \in 1..Len(drawn_lines) :
    drawn_lines[i].last => drawn_lines[i].extra_per_gap[1] = 0

\* the lines of block b among ops
block_lines(ops, b) ==
  Len(SelectSeq(ops, LAMBDA op : op.kind = "line" /\ op.block = b))

\* the lines the last paragraph step left on the page it found
kept_lines == block_lines(all_contents[decision[1].pages_before + 1],
                          decision[1].block)

\* the lines the last paragraph step drew on the page it started
deferred_lines == block_lines(current_content, decision[1].block)

overflowed == decision # NoneV /\ decision[1].not_fit

room_for ==
  Cardinality({k \in 1..(decision[1].n + 2) :
                 decision[1].first_line_h + (k - 1) * decision[1].line_h
                   <= decision[1].room})

\* C5: when a paragraph of N lines does not fit and F of them fit in the
\* room left, a split keeps F lines if N - F >= 2 and N - 2 lines
\* otherwise, never more than F; five lines with room for two are split
\* into two kept and three deferred.
C5_KeptLineCount ==
  overflowed =>
    /\ kept_lines > 0 =>
         /\ kept_lines = IF decision[1].n - room_for >= 2 THEN room_for
                         ELSE decision[1].n - 2
         /\ kept_lines <= room_for
    /\ (decision[1].n = 5 /\ room_for = 2) =>
         (kept_lines = 2 /\ deferred_lines = 3)

C5_Witness ==
  /\ overflowed
  /\ decision[1].n = 5
  /\ room_for = 2
  /\ kept_lines = 2
  /\ deferred_lines = 3

\* ------------------------------------------------------------------------
\* Table layout on its own: auto_fit_columns and compute_row_layouts on a
\* one-row table of one or two columns, two paragraphs to the cell, whose
\* cells are filled a run at a time
\* ------------------------------------------------------------------------
MaxTableRuns == 3

\* the hinted column widths tried: 5pt, 11.12pt, 20pt
TableHints == {500, 1112, 2000}

\* words of 5.56pt, 16.68pt and (embedded bold) 10pt
TableRunKinds ==
  <<PlainRun(<<97, 32>>), PlainRun(<<97, 97, 97, 32>>),
    Run(<<97, 32>>, 1000, <<"Emb">>, TRUE, FALSE, FALSE, "Baseline")>>

TableRuns == {TableRunKinds[i] : i \in 1..Len(TableRunKinds)}

BlankTable(hints) ==
  Table(hints,
        <<TableRow([ci \in 1..Len(hints) |->
                      TableCell(hints[ci],
                                <<Paragraph(<<>>, "Left"),
                                  Paragraph(<<>>, "Left")>>)])>>)

TableDoc == RenderDoc(<<>>, NoneV)

\* the font map of a document whose runs are of these kinds
TableFonts ==
  collect_fonts(TableRunKinds, DocEmbeddedFonts, NoIndex, NoIndex).seen_fonts

\* render_table's two calls (pdf.rs 627-628) on t
laid_out_with(t, fit) ==
  [widths |-> fit,
   row_layouts |-> compute_row_layouts(t, whole_widths(fit), TableDoc,
                                       TableFonts)]

laid_out(t) == laid_out_with(t, auto_fit_columns(t, TableFonts))

TableInit ==
  /\ \E hints \in SeqsUpTo(TableHints, 2) \ {<<>>} :
       \E l \in {laid_out(BlankTable(hints))} :
         /\ table = BlankTable(hints)
         /\ widths = l.widths
         /\ row_layouts = l.row_layouts
  /\ WrapIdle
  /\ RenderIdle
  /\ FontIdle
  /\ ConvertIdle

table_run_count(t) == Len(block_runs(t))

\* the caller appends a run to a paragraph of a cell and lays the table
\* out again
AppendCellRun ==
  /\ table_run_count(table) < MaxTableRuns
  /\ \E ci \in 1..Len(table.col_widths), pi \in 1..2, r \in TableRuns :
       \E l \in {laid_out([table EXCEPT
                              !.rows[1].cells[ci].paragraphs[pi].runs
                                = Append(@, r)])} :
         /\ table' = [table EXCEPT
                        !.rows[1].cells[ci].paragraphs[pi].runs
                          = Append(@, r)]
         /\ widths' = l.widths
         /\ row_layouts' = l.row_layouts
  /\ UNCHANGED <<wrapVars, renderVars, fontVars, convertVars>>

TableNext == AppendCellRun

SpecTable == TableInit /\ [][TableNext]_vars

\* ------------------------------------------------------------------------
\* Properties of table layout
\* ------------------------------------------------------------------------
\* C6: the widths auto_fit_columns returns sum to the sum of the hinted
\* widths within 0.01pt, for every table, a single column or columns that
\* all grow included.
C6_TotalWidthPreserved ==
  Abs(SumSeq(widths.nums) - SumSeq(table.col_widths) * widths.den)
    <= NORMALIZE_EPSILON * widths.den

\* C7: after auto_fit_columns every column is at least as wide as the
\* widest word of its cells, also when the growth needed exceeds the
\* slack of the other columns.
C7_ColumnHoldsWidestWord ==
  \A ci \in 1..Len(table.col_widths) :
    widths.nums[ci] >= min_width(table, ci, TableFonts) * widths.den

\* the line height of a cell paragraph: that of its first run's font and
\* size at the effective line spacing, 1.2 x the size without font metrics
para_line_h(para) ==
  LET fs == IF para.runs = <<>> THEN 1200 ELSE para.runs[1].font_size
      ratio == font_metric(para.runs, TableFonts, "line_h_ratio")
      ls == unwrap_or(para.line_spacing, TableDoc.line_spacing)
  IN IF ratio = NoneV THEN (fs * 12) \div 10
     ELSE (((fs * ratio[1]) \div 1000) * ls) \div 1000

\* the wrapped lines of paragraph pi of cell ci in the layout ls
para_line_count(ls, ci, pi) ==
  Len(SelectSeq(ls[1].cell_lines[ci].lines,
                LAMBDA l : l.src = <<1, ci, pi>>))

cell_height(ci) ==
  SumSeq([pi \in 1..Len(table.rows[1].cells[ci].paragraphs) |->
            para_line_count(row_layouts, ci, pi)
              * para_line_h(table.rows[1].cells[ci].paragraphs[pi])])

row_height_formula ==
  row_layouts[1].height =
    SetMax({cell_height(ci) : ci \in 1..Len(table.rows[1].cells)})
      + TABLE_CELL_PAD_TOP + TABLE_CELL_PAD_BOTTOM + TABLE_BORDER_WIDTH

row_height_monotone ==
  (\A ci \in 1..Len(table.col_widths) : \A pi \in 1..2 :
     para_line_count(row_layouts', ci, pi)
       >= para_line_count(row_layouts, ci, pi))
    => row_layouts'[1].height >= row_layouts[1].height

\* C8: the height of a table row is the largest, over its cells, sum of
\* line count x line height of the cell's paragraphs, plus the top and
\* bottom padding and the border width; when no paragraph of the row
\* loses a line, the height does not decrease.
C8_RowHeight == [](row_height_formula) /\ [][row_height_monotone]_vars

\* a two-line cell beside a one-line cell: the row is as high as the first
C8_Witness ==
  /\ Len(table.col_widths) = 2
  /\ Len(row_layouts[1].cell_lines[1].lines) = 2
  /\ Len(row_layouts[1].cell_lines[2].lines) = 1
  /\ row_layouts[1].height = 2 * 1200 + TABLE_BORDER_WIDTH

\* ------------------------------------------------------------------------
\* Font registration on its own: register_font called for one key after
\* another, in one run of the program and in the next, against the same
\* embedded fonts and the same font files
\* ------------------------------------------------------------------------
MaxRegistrations == 2

MaxProcesses == 2

FontFile(data, is_collection) ==
  [data |-> data, is_collection |-> is_collection]

\* the font files a host may hold: two files that both give the regular
\* face of "host" (the second a collection that also holds its italic), a
\* bold face of "host" and a bold face of "emb"
HostFontFiles ==
  ("host.ttf" :> FontFile(<<Face("Host", FALSE, FALSE, 900, -300, 0, 250,
                                 500)>>, FALSE))
  @@ ("host2.ttc" :> FontFile(<<Face("HOST", FALSE, FALSE, 1000, -250, 0,
                                     400, 700),
                                Face("Host", FALSE, TRUE, 1000, -250, 0, 350,
                                     650)>>, TRUE))
  @@ ("hostbd.ttf" :> FontFile(<<Face("Host", TRUE, FALSE, 900, -300, 0, 300,
                                      600)>>, FALSE))
  @@ ("embbd.otf" :> FontFile(<<Face("Emb", TRUE, FALSE, 700, -300, 0, 450,
                                     900)>>, FALSE))

\* the embedded-font maps tried: none, "emb" bold, "emb" bold whose bytes
\* do not parse
EmbeddedFontMaps ==
  {NoIndex, DocEmbeddedFonts, (<<"emb", TRUE, FALSE>> :> <<>>)}

\* the keys asked for
FontRequests ==
  ({"Emb", "Host", "Missing"} \X BOOLEAN \X {FALSE})
    \cup {<<"Host", FALSE, TRUE>>, <<"Host", TRUE, TRUE>>}

\* the orders in which a walk may meet the files S
Orders(S) ==
  {o \in [1..Cardinality(S) -> S] :
     \A i, j \in 1..Cardinality(S) : i # j => o[i] # o[j]}

file_bytes(files) == [p \in DOMAIN files |-> files[p].data]

FontInit ==
  /\ \E present \in SUBSET DOMAIN HostFontFiles :
       font_files = [p \in present |-> HostFontFiles[p]]
  /\ embedded \in EmbeddedFontMaps
  /\ FONT_INDEX = NoneV
  /\ registered = <<>>
  /\ process = 1
  /\ caller = <<>>
  /\ scans = 0
  /\ WrapIdle
  /\ RenderIdle
  /\ TableIdle
  /\ ConvertIdle

\* the embedded bytes for the key exist and parse: find_font_file is not
\* called (fonts.rs 368-372)
embedded_hit(font_name, bold, italic) ==
  LET embedded_key == <<to_lowercase(font_name), bold, italic>>
  IN /\ embedded_key \in DOMAIN embedded
     /\ embed_truetype(embedded[embedded_key], 0) # NoneV

\* one call of register_font (fonts.rs 350-392)
RegisterFont ==
  /\ Len(registered) < MaxRegistrations
  /\ \E req \in FontRequests, order \in Orders(DOMAIN font_files) :
       LET index == get_font_index(FONT_INDEX, font_files, order)
           entry == register_font(req[1], req[2], req[3],
                                  Len(registered) + 1, embedded, index,
                                  file_bytes(font_files))
       IN /\ FONT_INDEX' = IF embedded_hit(req[1], req[2], req[3])
                           THEN FONT_INDEX ELSE Some(index)
          /\ registered' = Append(registered,
                                  [font_name |-> req[1], bold |-> req[2],
                                   italic |-> req[3], process |-> process,
                                   entry |-> entry])
  /\ UNCHANGED <<font_files, embedded, process, caller, scans, wrapVars,
                 renderVars, tableVars, convertVars>>

\* the program ends and is run again: the static FONT_INDEX starts unset
NewProcess ==
  /\ process < MaxProcesses
  /\ process' = process + 1
  /\ FONT_INDEX' = NoneV
  /\ UNCHANGED <<font_files, embedded, registered, caller, scans, wrapVars,
                 renderVars, tableVars, convertVars>>

FontNext == RegisterFont \/ NewProcess

SpecFont == FontInit /\ [][FontNext]_vars

\* ------------------------------------------------------------------------
\* Properties of font registration
\* ------------------------------------------------------------------------
same_metrics(e1, e2) ==
  /\ e1.widths_1000 = e2.widths_1000
  /\ e1.line_h_ratio = e2.line_h_ratio
  /\ e1.ascender_ratio = e2.ascender_ratio

\* the metrics of face face_index of the file at path
file_metrics(path, face_index) ==
  embed_truetype(font_files[path].data, face_index)

\* the faces of the host files that answer to (family, bold, italic)
host_faces(family, bold, italic) ==
  {pf \in {<<p, i>> : p \in DOMAIN font_files, i \in 0..1} :
     /\ pf[2] < face_count(font_files[pf[1]])
     /\ read_font_style(font_files[pf[1]].data, pf[2])
          = Some(<<font_files[pf[1]].data[pf[2] + 1].family, bold, italic>>)
     /\ to_lowercase(font_files[pf[1]].data[pf[2] + 1].family)
          = to_lowercase(family)}

\* the entry r.entry is the one the order of resolution gives: embedded
\* bytes of the key, else a host face of the key, else (for a bold or
\* italic key) a regular host face, else the generic widths without ratios
in_resolution_order(r) ==
  LET embedded_key == <<to_lowercase(r.font_name), r.bold, r.italic>>
      exact == host_faces(r.font_name, r.bold, r.italic)
      regular == host_faces(r.font_name, FALSE, FALSE)
      of_face(pf) ==
        /\ r.entry.widths_1000 = file_metrics(pf[1], pf[2])[1].widths
        /\ r.entry.line_h_ratio
             = Some(file_metrics(pf[1], pf[2])[1].line_h_ratio)
        /\ r.entry.ascender_ratio
             = Some(file_metrics(pf[1], pf[2])[1].ascender_ratio)
  IN IF embedded_hit(r.font_name, r.bold, r.italic)
     THEN /\ r.entry.widths_1000
               = embed_truetype(embedded[embedded_key], 0)[1].widths
          /\ r.entry.line_h_ratio # NoneV
     ELSE IF exact # {} THEN \E pf \in exact : of_face(pf)
          ELSE IF (r.bold \/ r.italic) /\ regular # {}
               THEN \E pf \in regular : of_face(pf)
               ELSE /\ r.entry.widths_1000 = helvetica_widths
                    /\ r.entry.line_h_ratio = NoneV
                    /\ r.entry.ascender_ratio = NoneV

\* every registration followed the order of resolution, and two
\* registrations of one key in the same run of the program agree
ResolutionOrder ==
  /\ \A i \in 1..Len(registered) : in_resolution_order(registered[i])
  /\ \A i, j \in 1..Len(registered) :
       (/\ registered[i].font_name = registered[j].font_name
        /\ registered[i].bold = registered[j].bold
        /\ registered[i].italic = registered[j].italic
        /\ registered[i].process = registered[j].process)
         => same_metrics(registered[i].entry, registered[j].entry)

\* C9: register_font resolves a key in the order embedded, host exact
\* style, host regular, generic, and two resolutions of one key against
\* the same embedded fonts and the same font files give the same width
\* table and the same ratios.
C9_SameKeySameMetrics ==
  /\ \A i \in 1..Len(registered) : in_resolution_order(registered[i])
  /\ \A i, j \in 1..Len(registered) :
       (/\ registered[i].font_name = registered[j].font_name
        /\ registered[i].bold = registered[j].bold
        /\ registered[i].italic = registered[j].italic)
         => same_metrics(registered[i].entry, registered[j].entry)

\* ------------------------------------------------------------------------
\* Rendering on a short page: render on every document of at most
\* MaxPageBlocks blocks drawn on a page of three 12pt lines, with every
\* combination of the four header/footer variants and of the
\* different-first-page flag
\* ------------------------------------------------------------------------
MaxPageBlocks == 2

\* "a" at 40pt: one line of 48pt, taller than the 36pt between the margins
TallLinePara ==
  Paragraph(<<Run(a_words(1), 4000, <<"Helvetica">>, FALSE, FALSE, FALSE,
                  "Baseline")>>,
            "Left")

\* an image 40pt high
TallImagePara ==
  [Paragraph(<<>>, "Left") EXCEPT
     !.content_height = 4000,
     !.image = Some([display_width |-> 1000, display_height |-> 4000])]

ItalicRun(text) ==
  Run(text, 1000, <<"Helvetica">>, FALSE, TRUE, FALSE, "Baseline")

OneCellRow(rs) == TableRow(<<TableCell(1500, <<Paragraph(rs, "Left")>>)>>)

\* three rows of one cell: a 48.5pt row, then two 12.5pt rows
ThreeRowTable ==
  Table(<<1500>>,
        <<OneCellRow(TallLinePara.runs),
          OneCellRow(<<ItalicRun(a_words(1))>>),
          OneCellRow(<<PlainRun(a_words(1))>>)>>)

PageBlocks ==
  {JustifiedPara(n, FALSE) : n \in {1, 2, 4}}
  \cup {TallLinePara, TallImagePara, ThreeRowTable}

NumPagesField ==
  [Run(<<>>, 800, <<"Emb", "Helvetica">>, TRUE, FALSE, FALSE, "Baseline")
     EXCEPT !.field_code = Some("NumPages")]

\* "a" and the page number
DefaultHeader ==
  HeaderFooter(<<Paragraph(<<PlainRun(a_words(1)), PageField>>, "Left")>>)

\* "aa a" and the page number
FirstHeader ==
  HeaderFooter(<<Paragraph(<<PlainRun(<<97, 97, 32, 97>>), PageField>>,
                           "Left")>>)

\* the page number, "a" and the page count in the embedded bold
DefaultFooter ==
  HeaderFooter(<<Paragraph(<<PageField, PlainRun(a_words(1)), NumPagesField>>,
                           "Center")>>)

\* the page count alone
FirstFooter == HeaderFooter(<<Paragraph(<<NumPagesField>>, "Right")>>)

OptionOf(v) == {NoneV, Some(v)}

\* a page of three 12pt lines, 15pt wide
PageDoc(blocks, hd, hf, fd, ff, dfp) ==
  [RenderDoc(blocks, hd) EXCEPT
     !.page_height = 5600, !.header_first = hf, !.footer_default = fd,
     !.footer_first = ff, !.different_first_page = dfp]

PagesInit ==
  /\ \E blocks \in SeqsUpTo(PageBlocks, MaxPageBlocks) :
       \E hd \in OptionOf(DefaultHeader), hf \in OptionOf(FirstHeader),
          fd \in OptionOf(DefaultFooter), ff \in OptionOf(FirstFooter),
          dfp \in BOOLEAN :
         doc = PageDoc(blocks, hd, hf, fd, ff, dfp)
  /\ seen_fonts = NoneV
  /\ phase = "fonts"
  /\ block_idx = 0
  /\ all_contents = <<>>
  /\ current_content = <<>>
  /\ slot_top = 0
  /\ prev_space_after = 0
  /\ decision = NoneV
  /\ result = NoneV
  /\ WrapIdle
  /\ TableIdle
  /\ FontIdle
  /\ ConvertIdle

SpecPages == PagesInit /\ [][RenderNext]_vars

\* ------------------------------------------------------------------------
\* Properties of headers and footers
\* ------------------------------------------------------------------------
\* the lines drawn on page p by the header (kind "header") or the footer
hf_lines(p, kind) ==
  SelectSeq(all_contents[p],
            LAMBDA op : op.kind = "line" /\ op.block = 0
                          /\ op.src[1] = kind)

\* the variant the page is meant to carry: the first-page one on page 1 of
\* a document with the different-first-page flag, else the default one
meant_variant(p, first, default) ==
  IF p = 1 /\ doc.different_first_page THEN first ELSE default

meant_header(p) == meant_variant(p, doc.header_first, doc.header_default)

meant_footer(p) == meant_variant(p, doc.footer_first, doc.footer_default)

RECURSIVE decimal_value(_)
\* the number a string of decimal digits denotes, -1 if it is not one
decimal_value(bytes) ==
  IF bytes = <<>> THEN -1
  ELSE IF bytes[Len(bytes)] \notin 48..57 THEN -1
       ELSE IF Len(bytes) = 1 THEN bytes[1] - 48
            ELSE IF decimal_value(SubSeq(bytes, 1, Len(bytes) - 1)) < 1
                 THEN -1
                 ELSE 10 * decimal_value(SubSeq(bytes, 1, Len(bytes) - 1))
                        + bytes[Len(bytes)] - 48

\* chunk ci of the drawn line op shows run r of its paragraph as it should
\* on page p of n
chunk_as_meant(op, ci, r, p, n) ==
  /\ op.set_font[ci] = <<seen_fonts[font_key(r)].pdf_name,
                         effective_font_size(r)>>
  /\ CASE r.field_code = Some("Page") -> decimal_value(op.shown[ci]) = p
       [] r.field_code = Some("NumPages") -> decimal_value(op.shown[ci]) = n
       [] OTHER ->
            op.shown[ci] =
              to_winansi_bytes(split_whitespace(r.text)[op.chunk_src[ci][2] + 1])

\* the lines ls drawn for the header or footer variant show every run of
\* the variant, and nothing else, as meant on page p of n
variant_as_meant(ls, variant, p, n) ==
  /\ \A li \in 1..Len(ls) :
       \A ci \in 1..Len(ls[li].shown) :
         chunk_as_meant(ls[li], ci,
                        variant.paragraphs[ls[li].src[2]]
                          .runs[ls[li].chunk_src[ci][1]],
                        p, n)
  /\ \A pi \in 1..Len(variant.paragraphs) :
       \A ri \in 1..Len(variant.paragraphs[pi].runs) :
         variant.paragraphs[pi].runs[ri].field_code # NoneV =>
           \E li \in 1..Len(ls) :
             /\ ls[li].src[2] = pi
             /\ \E ci \in 1..Len(ls[li].shown) : ls[li].chunk_src[ci][1] = ri

\* the runs substitution hands to line building differ from the runs of
\* the paragraph in the text of the field runs only
attributes_kept(variant, p, n) ==
  \A pi \in 1..Len(variant.paragraphs) :
    LET rs == variant.paragraphs[pi].runs
        sub == substitute_fields(rs, p, n)
    IN /\ Len(sub) = Len(rs)
       /\ \A ri \in 1..Len(rs) :
            /\ \A f \in {"font_size", "font_name", "bold", "italic", "is_tab",
                         "vertical_align"} : sub[ri][f] = rs[ri][f]
            /\ rs[ri].field_code = NoneV => sub[ri].text = rs[ri].text

\* C11: on page p of the n pages finally emitted, every page-number field
\* of the header and of the footer is drawn as the decimal text of p and
\* every page-count field as the decimal text of n, in the font and size of
\* the field run; runs without a field code are drawn with their own text.
C11_FieldsSubstituted ==
  phase = "done" =>
    \A p \in 1..Len(all_contents) :
      /\ meant_header(p) # NoneV =>
           /\ variant_as_meant(hf_lines(p, "header"), meant_header(p)[1], p,
                               Len(all_contents))
           /\ attributes_kept(meant_header(p)[1], p, Len(all_contents))
      /\ meant_footer(p) # NoneV =>
           /\ variant_as_meant(hf_lines(p, "footer"), meant_footer(p)[1], p,
                               Len(all_contents))
           /\ attributes_kept(meant_footer(p)[1], p, Len(all_contents))

\* page 2 of at least three pages carries the default header and footer
C11_Witness ==
  /\ phase = "done"
  /\ Len(all_contents) >= 3
  /\ doc.header_default # NoneV
  /\ doc.footer_default # NoneV
  /\ \E li \in 1..Len(hf_lines(2, "header")) :
       \E ci \in 1..Len(hf_lines(2, "header")[li].shown) :
         hf_lines(2, "header")[li].shown[ci] = <<50>>
  /\ \E li \in 1..Len(hf_lines(2, "footer")) :
       \E ci \in 1..Len(hf_lines(2, "footer")[li].shown) :
         /\ hf_lines(2, "footer")[li].chunk_src[ci][1] = 3
         /\ decimal_value(hf_lines(2, "footer")[li].shown[ci])
              = Len(all_contents)

\* what a header or footer variant draws: the shown bytes of its lines
shown_of(ls) == [li \in 1..Len(ls) |-> ls[li].shown]

\* what variant draws on a page if it draws its own runs and nothing else
own_words(variant) ==
  UNION {UNION {{to_winansi_bytes(w) :
                   w \in {split_whitespace(variant.paragraphs[pi].runs[ri].text)[k] :
                            k \in 1..Len(split_whitespace(
                                           variant.paragraphs[pi].runs[ri].text))}} :
                  ri \in 1..Len(variant.paragraphs[pi].runs)} :
           pi \in 1..Len(variant.paragraphs)}

\* the words shown by the lines ls that are not page numbers or counts
plain_words(ls) ==
  UNION {{ls[li].shown[ci] : ci \in {c \in 1..Len(ls[li].shown) :
                                       decimal_value(ls[li].shown[c]) = -1}} :
           li \in 1..Len(ls)}

\* the lines ls are what the variant meant for the page draws: nothing if
\* it is absent, its own paragraphs otherwise
drawn_is(ls, variant) ==
  IF variant = NoneV THEN ls = <<>>
  ELSE /\ ls # <<>>
       /\ plain_words(ls) = own_words(variant[1])
       /\ \A li \in 1..Len(ls) : ls[li].src[2] \in 1..Len(variant[1].paragraphs)

\* C17: every page carries the first-page header if it is page 1 and the
\* different-first-page flag is set, the default header otherwise, and
\* likewise and independently for the footer; an absent variant draws
\* nothing and the other variant never stands in for it.
C17_VariantPerPage ==
  phase = "done" =>
    \A p \in 1..Len(all_contents) :
      /\ drawn_is(hf_lines(p, "header"), meant_header(p))
      /\ drawn_is(hf_lines(p, "footer"), meant_footer(p))

\* a document of two pages or more with the flag set, a first-page header
\* and no first-page footer, both default variants present
C17_Witness ==
  /\ phase = "done"
  /\ Len(all_contents) >= 2
  /\ doc.different_first_page
  /\ doc.header_first # NoneV
  /\ doc.footer_first = NoneV
  /\ doc.header_default # NoneV
  /\ doc.footer_default # NoneV
  /\ hf_lines(1, "footer") = <<>>
  /\ hf_lines(1, "header") # <<>>
  /\ hf_lines(2, "footer") # <<>>

\* ------------------------------------------------------------------------
\* Properties of the font map
\* ------------------------------------------------------------------------
\* the runs of a sequence of paragraphs
runs_in(paragraphs) ==
  UNION {{paragraphs[pi].runs[ri] : ri \in 1..Len(paragraphs[pi].runs)} :
           pi \in 1..Len(paragraphs)}

\* the runs layout looks a font up for in block b
runs_of_block(b) ==
  IF b.kind = "Paragraph" THEN runs_in(<<b>>)
  ELSE UNION {UNION {runs_in(b.rows[ri].cells[ci].paragraphs) :
                       ci \in 1..Len(b.rows[ri].cells)} :
                ri \in 1..Len(b.rows)}

\* every run of the document: body, table cells, the four variants
runs_of_document ==
  UNION {runs_of_block(doc.blocks[bi]) : bi \in 1..Len(doc.blocks)}
    \cup UNION {IF v = NoneV THEN {} ELSE runs_in(v[1].paragraphs) :
                  v \in {doc.header_default, doc.header_first,
                         doc.footer_default, doc.footer_first}}

layout_started == phase \in {"blocks", "hf", "done"}

\* the map holds the keys of the runs and nothing else, each under a PDF
\* name of its own
font_map_complete ==
  layout_started =>
    /\ \A r \in runs_of_document : font_key(r) \in DOMAIN seen_fonts
    /\ runs_of_document # {} =>
         DOMAIN seen_fonts = {font_key(r) : r \in runs_of_document}
    /\ \A k1, k2 \in DOMAIN seen_fonts :
         seen_fonts[k1].pdf_name = seen_fonts[k2].pdf_name => k1 = k2
    /\ {seen_fonts[k].pdf_name : k \in DOMAIN seen_fonts}
         = 1..Cardinality(DOMAIN seen_fonts)

font_map_frozen == layout_started => seen_fonts' = seen_fonts

\* C15: from the first layout step on, the font map holds one entry for
\* every distinct font key of the runs of the body, of the table cells and
\* of the four header/footer variants, each registered once under its own
\* name, and no later step changes the map.
C15_FontMapComplete == [](font_map_complete) /\ [][font_map_frozen]_vars

\* three keys, the embedded bold being used by a footer only
C15_Witness ==
  /\ phase = "hf"
  /\ Cardinality(DOMAIN seen_fonts) = 3
  /\ \A bi \in 1..Len(doc.blocks) :
       \A r \in runs_of_block(doc.blocks[bi]) : ~r.bold
  /\ \E r \in runs_of_document : r.bold

\* ------------------------------------------------------------------------
\* Properties of pagination
\* ------------------------------------------------------------------------
\* where render is: the phase and the block its loop is at
position == <<phase, block_idx>>

\* a step of render moves its position on: every action of RenderNext
\* changes the phase or the block index, and one is enabled until the bytes
\* are returned
Turn ==
  /\ phase # "done"
  /\ \E ph \in {"blocks", "hf", "done"}, bi \in 0..(Len(doc.blocks) + 1) :
       phase' = ph /\ block_idx' = bi

\* render is sequential code run to its return (pdf.rs 797-1279): it does
\* not stop between two turns of its loops
SpecPagesFair == SpecPages /\ WF_position(Turn)

\* the height between the margins
usable_height == page_top(doc) - doc.margin_bottom

\* the pages of the body, the one being filled last
body_pages ==
  all_contents \o (IF phase = "blocks" THEN <<current_content>> ELSE <<>>)

\* the paragraph or the table row a body drawing belongs to
unit_of(op) ==
  <<op.block,
    IF op.kind = "cellborder" THEN op.row
    ELSE IF op.kind = "line" /\ op.src # <<>> THEN op.src[1]
    ELSE 0>>

\* a line, image or row taller than the page's usable height
is_tall(op) ==
  /\ op.block > 0
  /\ \/ op.kind = "line" /\ op.pitch > usable_height
     \/ op.kind \in {"image", "cellborder"} /\ op.h > usable_height

\* nothing of another paragraph or row lies above a tall unit on its page
tall_units_open_their_page ==
  \A p \in 1..Len(body_pages) :
    \A i \in 1..Len(body_pages[p]) :
      is_tall(body_pages[p][i])
        => \A j \in 1..(i - 1) :
             unit_of(body_pages[p][j]) = unit_of(body_pages[p][i])

\* the drawings of block b, over all pages
drawn_of(b, kind) ==
  SelectSeq(Flatten(body_pages), LAMBDA op : op.kind = kind /\ op.block = b)

\* every line and image of a laid paragraph and every cell of a laid table
\* is drawn exactly once
nothing_dropped ==
  \A b \in 1..(block_idx - 1) :
    LET blk == doc.blocks[b]
    IN IF blk.kind = "Paragraph"
       THEN IF blk.image # NoneV
            THEN Len(drawn_of(b, "image")) = 1
            ELSE LET ops == drawn_of(b, "line")
                 IN /\ Len(ops) = Len(paragraph_lines(blk, doc, seen_fonts))
                    /\ \A i \in 1..Len(ops) : ops[i].idx = i - 1
       ELSE \A ri \in 1..Len(blk.rows) :
              \A ci \in 1..Len(blk.rows[ri].cells) :
                Len(SelectSeq(drawn_of(b, "cellborder"),
                              LAMBDA op : op.row = ri /\ op.col = ci)) = 1

\* a turn of the block loop pushes at most one page for a paragraph and at
\* most one per row for a table, and none for what the cursor meets at the
\* top of a page
bounded_breaks ==
  (phase = "blocks" /\ block_idx' = block_idx + 1)
    => LET blk == doc.blocks[block_idx]
           pushed == Len(all_contents') - Len(all_contents)
       IN IF blk.kind = "Paragraph"
          THEN /\ pushed \in {0, 1}
               /\ at_top(slot_top, doc) => pushed = 0
          ELSE /\ pushed \in 0..Len(blk.rows)
               /\ at_top(slot_top - prev_space_after, doc)
                    => pushed < Len(blk.rows)

\* C13: pagination ends for every document: every block pushes a bounded
\* number of pages, a line, image or table row taller than the usable
\* height is drawn on a page it opens, having pushed no page when the cursor
\* was at the top already, and nothing is dropped.
C13_PaginationTerminates ==
  /\ [](tall_units_open_their_page /\ nothing_dropped)
  /\ [][bounded_breaks]_vars
  /\ <>(phase = "done")

\* a tall line met mid-page opens the second page, a tall image opened the
\* first
C13_Witness ==
  /\ phase = "done"
  /\ Len(all_contents) = 2
  /\ \E i \in 1..Len(all_contents[1]) :
       is_tall(all_contents[1][i]) /\ all_contents[1][i].kind = "image"
  /\ is_tall(all_contents[2][1]) /\ all_contents[2][1].kind = "line"

\* the lowest point a body drawing is placed at: the baseline of a line, the
\* lower edge of an image or of a row
low_point(op) == op.y

\* a body drawing no taller than the usable height
is_unit(op) ==
  /\ op.block > 0
  /\ \/ op.kind = "line" /\ op.pitch <= usable_height
     \/ op.kind \in {"image", "cellborder"} /\ op.h <= usable_height

\* C19: content extends below the bottom margin only when one line, image or
\* table row is itself taller than the usable height: every line, image and
\* row that is no taller is placed above the bottom margin, the lines of a
\* paragraph longer than a page being distributed over pages.
C19_ContentWithinMargins ==
  \A p \in 1..Len(body_pages) :
    \A i \in 1..Len(body_pages[p]) :
      is_unit(body_pages[p][i])
        => low_point(body_pages[p][i]) >= doc.margin_bottom

\* the pages on which something of row ri of table block b is drawn
pages_of_row(pages, b, ri) ==
  {p \in 1..Len(pages) :
     \E i \in 1..Len(pages[p]) :
       pages[p][i].block = b /\ unit_of(pages[p][i]) = <<b, ri>>}

\* the border drawn for the first cell of row ri of table block b
border_of_row(pages, b, ri) ==
  CHOOSE op \in UNION {{pages[p][i] : i \in 1..Len(pages[p])} :
                         p \in pages_of_row(pages, b, ri)} :
    op.kind = "cellborder" /\ op.block = b /\ op.row = ri /\ op.col = 1

\* the row heights render_table lays table block b out with (pdf.rs 626-630)
heights_of(b) ==
  LET layouts == compute_row_layouts(
                   doc.blocks[b],
                   whole_widths(auto_fit_columns(doc.blocks[b], seen_fonts)),
                   doc, seen_fonts)
  IN [ri \in 1..Len(layouts) |-> layouts[ri].height]

\* on every page the drawings of table block b come row after row
rows_in_order(pages, b) ==
  \A p \in 1..Len(pages) :
    \A i, j \in 1..Len(pages[p]) :
      (i < j /\ pages[p][i].block = b /\ pages[p][j].block = b)
        => unit_of(pages[p][i])[2] <= unit_of(pages[p][j])[2]

\* row ri of table block b, met with the cursor at cursor on page page, lies
\* on one page: the next one, from its top, if the cursor is not at the top
\* of the page and the row does not fit, else the same page from the cursor
row_placed(pages, b, ri, cursor, page, height) ==
  LET moved == ~at_top(cursor, doc) /\ cursor - height < doc.margin_bottom
      border == border_of_row(pages, b, ri)
  IN /\ pages_of_row(pages, b, ri) = {IF moved THEN page + 1 ELSE page}
     /\ border.h = height
     /\ border.y + height = IF moved THEN page_top(doc) ELSE cursor

\* a turn of the block loop on a table places its rows one after the other
\* and leaves the cursor at the lower edge of the last one
table_laid ==
  (phase = "blocks" /\ block_idx' = block_idx + 1
     /\ doc.blocks[block_idx].kind = "Table")
    => LET b == block_idx
           heights == heights_of(b)
           pages == body_pages'
           last == Len(doc.blocks[b].rows)
       IN /\ \A ri \in 1..last :
               IF ri = 1
               THEN row_placed(pages, b, 1, slot_top - prev_space_after,
                               Len(all_contents) + 1, heights[1])
               ELSE row_placed(pages, b, ri,
                               border_of_row(pages, b, ri - 1).y,
                               CHOOSE p \in pages_of_row(pages, b, ri - 1) :
                                 TRUE,
                               heights[ri])
          /\ rows_in_order(pages, b)
          /\ slot_top' = border_of_row(pages, b, last).y
          /\ pages_of_row(pages, b, last) = {Len(pages)}

\* every row drawn so far lies on one page
rows_whole ==
  \A b \in 1..(block_idx - 1) :
    doc.blocks[b].kind = "Table"
      => \A ri \in 1..Len(doc.blocks[b].rows) :
           Cardinality(pages_of_row(body_pages, b, ri)) = 1

\* C20: table rows are never split: the cell text and the borders of a row
\* are drawn into one page; a row that does not fit when the cursor is not
\* at the top of a page starts a new page and is placed whole at its top;
\* the rows come in table order and the cursor is lowered by exactly the
\* row height after each row.
C20_RowsNeverSplit == [](rows_whole) /\ [][table_laid]_vars

\* a table met mid-page whose first row opened the second page, whose
\* second row opened the third and whose third row follows on it
C20_Witness ==
  /\ phase = "done"
  /\ \E b \in 1..Len(doc.blocks) :
       /\ doc.blocks[b].kind = "Table"
       /\ pages_of_row(all_contents, b, 1) = {2}
       /\ pages_of_row(all_contents, b, 2) = {3}
       /\ pages_of_row(all_contents, b, 3) = {3}
       /\ border_of_row(all_contents, b, 1).y < doc.margin_bottom

\* ------------------------------------------------------------------------
\* The lines of one paragraph as render asks for them (pdf.rs 970-982):
\* build_tabbed_line if a run is a tab, else build_paragraph_lines, on
\* paragraphs of at most MaxLineRuns runs with tab stops of every alignment,
\* with and without leader, and with text that has characters outside
\* WinAnsi 32..255
\* ------------------------------------------------------------------------
MaxLineRuns == 3

\* "a", "a a", " a", "a.a", 'a' and U+0001, U+0100 and 'a'
LineTexts ==
  {<<97>>, <<97, 32, 97>>, <<32, 97>>, <<97, 46, 97>>, <<97, 1>>,
   <<256, 97>>}

LineTextRuns ==
  {Run(t, 1000, <<"Helvetica">>, FALSE, FALSE, FALSE, "Baseline") :
     t \in LineTexts}
  \cup {Run(<<97>>, 1000, <<"Emb", "Helvetica">>, TRUE, FALSE, FALSE,
            "Baseline")}

TabStop(at, alignment, leader) ==
  [position |-> at, alignment |-> alignment, leader |-> leader]

\* no stop (the default interval), and stops at 20, 30 and 50pt
LineTabStops ==
  {<<>>,
   <<TabStop(2000, "Left", Some(46))>>,
   <<TabStop(2000, "Center", NoneV), TabStop(5000, "Right", Some(46))>>,
   <<TabStop(3000, "Decimal", Some(95))>>}

LineIndents == {0, 500}

LineWidth == 1500

\* pdf.rs 970-982
LineLaid(rs, stops, indent, width) ==
  IF \E i \in 1..Len(rs) : rs[i].is_tab
  THEN build_tabbed_line(rs, WrapFonts(rs), stops, indent)
  ELSE build_paragraph_lines(rs, WrapFonts(rs), width)

LineInit ==
  /\ runs = <<>>
  /\ max_width = LineWidth
  /\ tab_stops \in LineTabStops
  /\ indent_left \in LineIndents
  /\ current_x = 0
  /\ next_stop = NoneV
  /\ lines = LineLaid(<<>>, tab_stops, indent_left, max_width)
  /\ RenderIdle
  /\ TableIdle
  /\ FontIdle
  /\ ConvertIdle

\* the paragraph has one more run of text and is laid out
LineAppendText ==
  /\ Len(runs) < MaxLineRuns
  /\ \E r \in LineTextRuns :
       /\ runs' = Append(runs, r)
       /\ lines' = LineLaid(Append(runs, r), tab_stops, indent_left,
                            max_width)
  /\ UNCHANGED <<max_width, tab_stops, indent_left, current_x, next_stop,
                 renderVars, tableVars, fontVars, convertVars>>

\* the paragraph has one more tab and is laid out
LineAppendTab ==
  /\ Len(runs) < MaxLineRuns
  /\ runs' = Append(runs, TabRun)
  /\ lines' = LineLaid(Append(runs, TabRun), tab_stops, indent_left,
                       max_width)
  /\ UNCHANGED <<max_width, tab_stops, indent_left, current_x, next_stop,
                 renderVars, tableVars, fontVars, convertVars>>

LineNext == LineAppendText \/ LineAppendTab

SpecLine == LineInit /\ [][LineNext]_vars

\* ------------------------------------------------------------------------
\* Properties of the chunks of a line
\* ------------------------------------------------------------------------
\* the chunks of the lines laid out, each with the width of its line
line_chunks ==
  UNION {{[chunk |-> lines[li].chunks[ci],
           total_width |-> lines[li].total_width] :
            ci \in 1..Len(lines[li].chunks)} : li \in 1..Len(lines)}

\* a chunk of leader characters
is_leader(chunk) == chunk.word = -1

\* C16: in every line of build_paragraph_lines and of build_tabbed_line,
\* lines with leader chunks included, every chunk ends at or before the
\* line's total_width: x_offset + width <= total_width.
C16_ChunksWithinTotalWidth ==
  \A c \in line_chunks : c.chunk.x_offset + c.chunk.width <= c.total_width

\* a tabbed line of text, leader and text: the leader starts after the
\* first word and ends before the line does
C16_Witness ==
  /\ \E c \in line_chunks :
       is_leader(c.chunk) /\ c.chunk.width > 0
         /\ c.chunk.x_offset + c.chunk.width < c.total_width
  /\ \E c \in line_chunks :
       ~is_leader(c.chunk) /\ c.chunk.x_offset = 0 /\ c.chunk.width > 0

\* the bytes of a word that count for its width (pdf.rs 81-85)
measured_bytes(text) ==
  SelectSeq(to_winansi_bytes(text), LAMBDA b : b >= 32)

\* C18: a character whose WinAnsi code is outside 32..255, having no
\* Windows-1252 mapping or being a control character that is not
\* whitespace, is left out of the width sums and of the bytes shown alike:
\* the bytes shown for a chunk are the bytes its width was summed over, all
\* of them in 32..255.
C18_OutOfRangeExcluded ==
  \A c \in line_chunks :
    /\ \A k \in 1..Len(shown_bytes(c.chunk)) :
         shown_bytes(c.chunk)[k] \in 32..255
    /\ shown_bytes(c.chunk) = measured_bytes(c.chunk.text)

\* ------------------------------------------------------------------------
\* The conversion of a file: convert_docx_to_pdf (lib.rs 10-14) on input
\* files parse rejects and on files that parse to a document of at most
\* MaxConvertBlocks blocks, some with no block or with a page of no width or
\* height
\* ------------------------------------------------------------------------
MaxConvertBlocks == 2

ConvertBlocks ==
  {JustifiedPara(1, FALSE), JustifiedPara(4, FALSE), TwoParagraphCellTable}

\* the page sizes tried: the page of RenderDoc, no width, no height
ConvertPages == {<<3500, 9200>>, <<0, 9200>>, <<3500, 0>>}

ConvertDoc(blocks, size) ==
  [RenderDoc(blocks, NoneV) EXCEPT !.page_width = size[1],
                                   !.page_height = size[2]]

ConvertDocs ==
  {ConvertDoc(blocks, size) :
     blocks \in SeqsUpTo(ConvertBlocks, MaxConvertBlocks),
     size \in ConvertPages}

Docx(document) ==
  [opens |-> TRUE, is_zip |-> TRUE, has_document_xml |-> TRUE,
   well_formed |-> TRUE, has_body |-> TRUE, document |-> document]

\* files parse rejects, one for each of its errors
RejectedFiles ==
  {[Docx(ConvertDoc(<<>>, <<3500, 9200>>)) EXCEPT ![f] = FALSE] :
     f \in {"opens", "is_zip", "has_document_xml", "well_formed", "has_body"}}

\* what the output path holds before the call: nothing, or an older file
OldOutput == [pages |-> <<>>, old |-> TRUE]

ConvertInit ==
  /\ input \in {Some(f) : f \in RejectedFiles}
                 \cup {Some(Docx(d)) : d \in ConvertDocs}
  /\ output \in {NoneV, Some(OldOutput)}
  /\ returned = NoneV
  /\ RenderIdle
  /\ WrapIdle
  /\ TableIdle
  /\ FontIdle

\* lib.rs 11: let doc = docx::parse(input)?
Parse ==
  /\ input # NoneV
  /\ phase = "idle"
  /\ returned = NoneV
  /\ \E r \in {parse(input[1])} :
       IF r.ok
       THEN /\ doc' = r.value
            /\ phase' = "fonts"
            /\ UNCHANGED returned
       ELSE /\ returned' = Some(r)
            /\ UNCHANGED <<doc, phase>>
  /\ UNCHANGED <<seen_fonts, block_idx, all_contents, current_content,
                 slot_top, prev_space_after, decision, result, input, output,
                 wrapVars, tableVars, fontVars>>

\* lib.rs 12-13: let bytes = pdf::render(&doc)?; std::fs::write(output, bytes)
WriteOutput ==
  /\ input # NoneV
  /\ phase = "done"
  /\ returned = NoneV
  /\ IF result.ok
     THEN \E outcome \in {"written", "refused", "cut"} :
            /\ output' = fs_write(output, result.value, outcome).file
            /\ returned' = Some(fs_write(output, result.value, outcome).ret)
     ELSE /\ returned' = Some(result)
          /\ UNCHANGED output
  /\ UNCHANGED <<input, renderVars, wrapVars, tableVars, fontVars>>

ConvertNext == Parse \/ RenderNext \/ WriteOutput

SpecConvert == ConvertInit /\ [][ConvertNext]_vars

\* ------------------------------------------------------------------------
\* Properties of the conversion
\* ------------------------------------------------------------------------
\* a document render is to refuse: no block, or a page without width or
\* height
structurally_invalid(d) ==
  \/ d.blocks = <<>>
  \/ d.page_width <= 0
  \/ d.page_height <= 0

\* C12: render applied to a document with no block or with a non-positive
\* page width or height returns an error and no bytes, never Ok.
C12_InvalidDocumentIsError ==
  (result # NoneV /\ structurally_invalid(doc)) => ~result.ok

\* the input file is one parse takes
is_docx(file) ==
  /\ file.opens
  /\ file.is_zip
  /\ file.has_document_xml
  /\ file.well_formed
  /\ file.has_body

\* the call has returned: Ok only with the whole PDF at the output path,
\* and an error for every file parse cannot take
returned_as_meant ==
  returned # NoneV =>
    /\ returned[1].ok =>
         /\ is_docx(input[1])
         /\ phase = "done"
         /\ output = Some(finish(all_contents))
    /\ ~is_docx(input[1]) => ~returned[1].ok

\* the output path is touched only once parsing and rendering are over
\* and have succeeded
written_last ==
  output' # output =>
    /\ is_docx(input[1])
    /\ phase = "done"
    /\ result # NoneV
    /\ result.ok
    /\ returned' # NoneV

\* C14: convert_docx_to_pdf writes the output file only after parsing and
\* rendering have both succeeded, and then the whole byte stream; if
\* parsing or rendering fails it returns the error and the output path is
\* left as it was.
C14_OutputWrittenLast == [](returned_as_meant) /\ [][written_last]_vars

\* a conversion that returned Ok and left a PDF of two pages or more
C14_Witness ==
  /\ returned # NoneV
  /\ returned[1].ok
  /\ output # NoneV
  /\ Len(output[1].pages) >= 2

\* ------------------------------------------------------------------------
\* The flow of blocks down the pages: render (pdf.rs 904-1174) on documents
\* of at most MaxFlowBlocks blocks on a page of three 12pt lines, with
\* spaced paragraphs, contextual spacing, page breaks before paragraphs with
\* and without content, a table, a paragraph long enough to be split and a
\* paragraph that carries an image and text
\* ------------------------------------------------------------------------
MaxFlowBlocks == 3

\* one line, 4pt before and 6pt after
SpacedPara ==
  [JustifiedPara(1, FALSE) EXCEPT !.space_before = 400, !.space_after = 600]

\* one line, 3pt before and 5pt after, contextual spacing
ContextualPara ==
  [JustifiedPara(1, FALSE) EXCEPT !.space_before = 300, !.space_after = 500,
                                  !.contextual_spacing = TRUE]

\* the page break alone, carried by a tab and a run of no text
BreakTabPara ==
  [Paragraph(<<TabRun, PlainRun(<<>>)>>, "Left") EXCEPT
     !.page_break_before = TRUE]

\* a line of text after a page break, 4pt before
BreakTextPara ==
  [JustifiedPara(1, FALSE) EXCEPT !.page_break_before = TRUE,
                                  !.space_before = 400]

\* an image 12pt high in a paragraph that has a word of text too
ImageTextPara ==
  [Paragraph(<<PlainRun(a_words(1))>>, "Left") EXCEPT
     !.content_height = 1200,
     !.image = Some([display_width |-> 1000, display_height |-> 1200])]

OneRowTable == Table(<<1500>>, <<OneCellRow(<<PlainRun(a_words(1))>>)>>)

FlowBlocks ==
  {JustifiedPara(1, FALSE), JustifiedPara(4, FALSE), SpacedPara,
   ContextualPara, PageBreakPara, BreakTabPara, BreakTextPara, ImageTextPara,
   OneRowTable}

FlowDoc(blocks) == PageDoc(blocks, NoneV, NoneV, NoneV, NoneV, FALSE)

FlowInit ==
  /\ \E blocks \in SeqsUpTo(FlowBlocks, MaxFlowBlocks) : doc = FlowDoc(blocks)
  /\ seen_fonts = NoneV
  /\ phase = "fonts"
  /\ block_idx = 0
  /\ all_contents = <<>>
  /\ current_content = <<>>
  /\ slot_top = 0
  /\ prev_space_after = 0
  /\ decision = NoneV
  /\ result = NoneV
  /\ WrapIdle
  /\ TableIdle
  /\ FontIdle
  /\ ConvertIdle

SpecFlow == FlowInit /\ [][RenderNext]_vars

\* ------------------------------------------------------------------------
\* Properties of the flow of blocks
\* ------------------------------------------------------------------------
\* the lines drawn for block b in pages, in drawing order
lines_in(pages, b) ==
  SelectSeq(Flatten(pages), LAMBDA op : op.kind = "line" /\ op.block = b)

\* a turn of the block loop on a paragraph
paragraph_turn ==
  /\ phase = "blocks"
  /\ block_idx' = block_idx + 1
  /\ doc.blocks[block_idx].kind = "Paragraph"

\* the paragraph has no run, or only tabs and runs of no text
content_free(para) ==
  \A i \in 1..Len(para.runs) : para.runs[i].is_tab \/ para.runs[i].text = <<>>

\* the finished pages after a page break taken where the cursor is not at
\* the top of a page
pages_after_break ==
  IF at_top(slot_top, doc) THEN all_contents
  ELSE Append(all_contents, current_content)

\* a paragraph with page-break-before starts a page exactly if the cursor
\* is not at the top of one; without content it draws nothing, leaves the
\* cursor at the top and carries no space on
break_taken ==
  (paragraph_turn /\ doc.blocks[block_idx].page_break_before)
    => /\ all_contents' = pages_after_break
       /\ content_free(doc.blocks[block_idx])
            => /\ current_content' =
                    IF at_top(slot_top, doc) THEN current_content ELSE <<>>
               /\ slot_top' =
                    IF at_top(slot_top, doc) THEN slot_top ELSE page_top(doc)
               /\ prev_space_after' = 0
       /\ ~content_free(doc.blocks[block_idx])
            => LET drawn == lines_in(body_pages', block_idx)
               IN /\ drawn # <<>>
                  /\ drawn[1].y =
                       page_top(doc)
                         - (IF all_contents' = <<>>
                            THEN doc.blocks[block_idx].space_before ELSE 0)
                         - decision'[1].ascent

\* C21: a paragraph with page-break-before starts a new page if and only if
\* the cursor is not at the top of a page, and the space carried from the
\* block before is reset to 0; if it has no runs or only tab and empty-text
\* runs nothing is drawn for it and the cursor is not advanced, so that two
\* such paragraphs in a row give one new page.
C21_PageBreakBefore == [][break_taken]_vars

\* a spaced paragraph, then two paragraphs that carry the page break alone:
\* one page was started, the cursor is at its top and no space is carried
C21_Witness ==
  /\ phase = "blocks"
  /\ block_idx = 4
  /\ doc.blocks = <<SpacedPara, PageBreakPara, BreakTabPara>>
  /\ Len(all_contents) = 1
  /\ current_content = <<>>
  /\ slot_top = page_top(doc)
  /\ prev_space_after = 0

\* everything drawn for block b in pages, in drawing order
ops_in(pages, b) == SelectSeq(Flatten(pages), LAMBDA op : op.block = b)

\* the first page of pages that holds something of block b
first_page_of(pages, b) ==
  CHOOSE p \in 1..Len(pages) :
    /\ \E i \in 1..Len(pages[p]) : pages[p][i].block = b
    /\ \A q \in 1..(p - 1) : \A i \in 1..Len(pages[q]) : pages[q][i].block # b

\* blocks b and b + 1 are paragraphs that both have contextual spacing
both_contextual(b) ==
  /\ b >= 1
  /\ b + 1 <= Len(doc.blocks)
  /\ doc.blocks[b].kind = "Paragraph"
  /\ doc.blocks[b + 1].kind = "Paragraph"
  /\ doc.blocks[b].contextual_spacing
  /\ doc.blocks[b + 1].contextual_spacing

\* the gap above a paragraph that is laid out, and the space it carries on
gap_kept ==
  (paragraph_turn /\ ~(doc.blocks[block_idx].page_break_before
                         /\ content_free(doc.blocks[block_idx])))
    => LET para == doc.blocks[block_idx]
           pages == body_pages'
           first == ops_in(pages, block_idx)[1]
           page == first_page_of(pages, block_idx)
           top == IF first.kind = "line" THEN first.y + decision'[1].ascent
                  ELSE first.y + first.h
           opens == page > 1 /\ pages[page][1].block = block_idx
           cursor == IF page = Len(all_contents) + 1 THEN slot_top
                     ELSE page_top(doc)
           carried == IF para.page_break_before THEN 0 ELSE prev_space_after
           before == IF both_contextual(block_idx - 1) THEN 0
                     ELSE para.space_before
       IN /\ top = cursor - (IF opens THEN 0 ELSE Max(carried, before))
          /\ prev_space_after' =
               IF both_contextual(block_idx) THEN 0 ELSE para.space_after

\* no space is carried on from a table
none_after_table ==
  (phase = "blocks" /\ block_idx' = block_idx + 1
     /\ doc.blocks[block_idx].kind = "Table")
    => prev_space_after' = 0

\* C22: the gap above a body paragraph is the larger of the space carried
\* from the block before and the paragraph's space-before, space-before and
\* space-after counting as 0 between two adjacent paragraphs that both have
\* contextual spacing; it is 0 where the paragraph is the first content of a
\* page after the first, and no space is carried from a table.
C22_GapAbove == [][gap_kept /\ none_after_table]_vars

\* a paragraph with 6pt after, then one with 4pt before met mid-page: 6pt
\* between them
C22_Witness ==
  /\ phase = "blocks"
  /\ block_idx = 3
  /\ Len(doc.blocks) >= 2
  /\ doc.blocks[1] = SpacedPara
  /\ doc.blocks[2] = SpacedPara
  /\ all_contents = <<>>
  /\ lines_in(<<current_content>>, 1)[1].y
       - lines_in(<<current_content>>, 2)[1].y = 1200 + 600

\* ------------------------------------------------------------------------
\* Baselines: render on documents of at most MaxBaselineBlocks blocks whose
\* paragraphs, table cell and header mix a 10pt run with a 20pt run after
\* it, or with a run of a face with a higher ascender
\* ------------------------------------------------------------------------
MaxBaselineBlocks == 2

BigRun(text) ==
  Run(text, 2000, <<"Helvetica">>, FALSE, FALSE, FALSE, "Baseline")

EmbRun(text) ==
  Run(text, 1000, <<"Emb", "Helvetica">>, TRUE, FALSE, FALSE, "Baseline")

\* 10pt "a" then 20pt "a": two lines of 24pt
MixedPara == Paragraph(<<PlainRun(a_words(1)), BigRun(a_words(1))>>, "Left")

\* 10pt "a" then "a" of the embedded face, ascender 0.8: one line
EmbMixedPara ==
  Paragraph(<<PlainRun(a_words(1)), EmbRun(a_words(1))>>, "Left")

\* 10pt "a" then 20pt "a a a a": five lines of 24pt
MixedLongPara ==
  Paragraph(<<PlainRun(a_words(1)), BigRun(a_words(4))>>, "Left")

MixedCellTable ==
  Table(<<3000>>, <<TableRow(<<TableCell(3000, <<MixedPara>>)>>)>>)

MixedHeader == HeaderFooter(<<MixedPara>>)

BaselineBlocks ==
  {JustifiedPara(1, FALSE), MixedPara, EmbMixedPara, MixedLongPara,
   MixedCellTable}

BaselineInit ==
  /\ \E blocks \in SeqsUpTo(BaselineBlocks, MaxBaselineBlocks) :
       \E header \in {NoneV, Some(MixedHeader)} :
         doc = RenderDoc(blocks, header)
  /\ seen_fonts = NoneV
  /\ phase = "fonts"
  /\ block_idx = 0
  /\ all_contents = <<>>
  /\ current_content = <<>>
  /\ slot_top = 0
  /\ prev_space_after = 0
  /\ decision = NoneV
  /\ result = NoneV
  /\ WrapIdle
  /\ TableIdle
  /\ FontIdle
  /\ ConvertIdle

SpecBaseline == BaselineInit /\ [][RenderNext]_vars

\* ------------------------------------------------------------------------
\* Properties of baselines
\* ------------------------------------------------------------------------
\* font size x ascender ratio of a run, 0.75 where the face gives none
ascent_of(run) ==
  (run.font_size
     * (IF font_key(run) \in DOMAIN seen_fonts
        THEN unwrap_or(seen_fonts[font_key(run)].ascender_ratio, 750)
        ELSE 750)) \div 1000

\* the largest font size x ascender ratio among the runs rs
tallest_ascent(rs) ==
  IF rs = <<>> THEN 900
  ELSE CHOOSE m \in {ascent_of(rs[i]) : i \in 1..Len(rs)} :
         \A i \in 1..Len(rs) : ascent_of(rs[i]) <= m

\* the lines of pages[p] that pick(op) holds for
lines_on(pages, p, pick(_)) ==
  SelectSeq(pages[p], LAMBDA op : op.kind = "line" /\ pick(op))

\* the first line of a body paragraph on each page it is drawn on lies its
\* tallest ascent below the cursor, or below the top of a page it opens
body_baseline ==
  paragraph_turn
    => LET b == block_idx
           pages == body_pages'
           of_b(op) == op.block = b
       IN \A p \in 1..Len(pages) :
            lines_on(pages, p, of_b) # <<>>
              => lines_on(pages, p, of_b)[1].y =
                   (IF p = Len(all_contents) + 1 THEN slot_top
                    ELSE page_top(doc))
                     - tallest_ascent(doc.blocks[b].runs)

\* the first line of a table cell lies the tallest ascent of the cell's
\* runs below the top of its row
cell_baseline ==
  (phase = "blocks" /\ block_idx' = block_idx + 1
     /\ doc.blocks[block_idx].kind = "Table")
    => LET b == block_idx
           pages == body_pages'
       IN \A ri \in 1..Len(doc.blocks[b].rows) :
            \A ci \in 1..Len(doc.blocks[b].rows[ri].cells) :
              LET in_cell(op) ==
                    op.block = b /\ op.src[1] = ri /\ op.src[2] = ci
                  p == CHOOSE q \in pages_of_row(pages, b, ri) : TRUE
                  border == border_of_row(pages, b, ri)
              IN lines_on(pages, p, in_cell) # <<>>
                   => lines_on(pages, p, in_cell)[1].y =
                        border.y + border.h - TABLE_CELL_PAD_TOP
                          - tallest_ascent(
                              paragraph_runs(
                                doc.blocks[b].rows[ri].cells[ci].paragraphs))

\* the first line of a header paragraph lies the tallest ascent of its runs
\* below the header margin
header_baseline ==
  (phase = "done" /\ doc.header_default # NoneV)
    => \A p \in 1..Len(all_contents) :
         hf_lines(p, "header") # <<>>
           => hf_lines(p, "header")[1].y =
                doc.page_height - doc.header_margin
                  - tallest_ascent(doc.header_default[1].paragraphs[1].runs)

\* C23: wherever a baseline is computed (body paragraph, both parts of a
\* split paragraph, header or footer paragraph, table cell) it is the slot
\* top less font size x ascender ratio of the run with the largest such
\* product among the runs placed, not of the first run.
C23_TallestRunBaseline ==
  [](header_baseline) /\ [][body_baseline /\ cell_baseline]_vars

\* ------------------------------------------------------------------------
\* The next tab stop: find_next_tab_stop (pdf.rs 143-160) for a cursor that
\* moves from 0 to MaxCursorX hundredths of a point, over stop lists in and
\* out of order and over left indents of either sign
\* ------------------------------------------------------------------------
MaxCursorX == 4000

\* the lists of SpecLine and a list whose stops are not in order
TabStopLists ==
  LineTabStops
    \cup {<<TabStop(3000, "Right", NoneV), TabStop(2000, "Left", Some(46))>>}

TabIndents == {0, 500, -700}

TabStopInit ==
  /\ tab_stops \in TabStopLists
  /\ indent_left \in TabIndents
  /\ current_x = 0
  /\ next_stop = Some(find_next_tab_stop(0, tab_stops, indent_left))
  /\ runs = <<>>
  /\ max_width = 0
  /\ lines = <<>>
  /\ RenderIdle
  /\ TableIdle
  /\ FontIdle
  /\ ConvertIdle

\* the cursor has moved on by 0.01pt or by 0.5pt and a tab is met
NextTabStop ==
  /\ \E d \in {1, 50} :
       /\ current_x + d <= MaxCursorX
       /\ current_x' = current_x + d
       /\ next_stop' = Some(find_next_tab_stop(current_x + d, tab_stops,
                                               indent_left))
  /\ UNCHANGED <<runs, max_width, lines, tab_stops, indent_left, renderVars,
                 tableVars, fontVars, convertVars>>

SpecTabStop == TabStopInit /\ [][NextTabStop]_vars

\* the indices of the configured stops more than 0.5pt beyond abs_x
stops_beyond(abs_x) ==
  {i \in 1..Len(tab_stops) : tab_stops[i].position > abs_x + 50}

\* C24: find_next_tab_stop returns the first configured stop, in list
\* order, whose position exceeds the absolute x (cursor + left indent) by
\* more than 0.5pt; if there is none, a left-aligned stop without leader at
\* the smallest multiple of 36pt strictly greater than the absolute x.  The
\* position returned is always strictly greater than the absolute x.
C24_NextTabStop ==
  LET abs_x == current_x + indent_left
      beyond == stops_beyond(abs_x)
      stop == next_stop[1]
  IN /\ beyond # {}
          => stop = tab_stops[CHOOSE i \in beyond : \A j \in beyond : i <= j]
     /\ beyond = {}
          => /\ stop.alignment = "Left"
             /\ stop.leader = NoneV
             /\ stop.position % 3600 = 0
             /\ stop.position > abs_x
             /\ stop.position - 3600 <= abs_x
     /\ stop.position > abs_x

\* the cursor has moved to within 0.5pt of a configured stop, which is
\* passed over for a stop further on
C24_Witness ==
  /\ current_x > 0
  /\ \E i \in 1..Len(tab_stops) :
       /\ tab_stops[i].position > current_x + indent_left
       /\ tab_stops[i].position <= current_x + indent_left + 50
       /\ next_stop[1].position > tab_stops[i].position

\* ------------------------------------------------------------------------
\* Properties of the tabbed line (pdf.rs 246-358)
\* ------------------------------------------------------------------------
has_tabs == \E i \in 1..Len(runs) : runs[i].is_tab

line_segments == split_segments(runs, 1, <<>>)

\* the cursor reached before the tab that opens segment k: current_x after
\* the segments 1..k-1
cursor_before(k) ==
  tab_segments([all_chunks |-> <<>>, current_x |-> 0, prev_ws |-> FALSE],
               runs, SubSeq(line_segments, 1, k - 1), 1, tab_stops,
               indent_left, WrapFonts(runs)).current_x

stop_of(k) == find_next_tab_stop(cursor_before(k), tab_stops, indent_left)

\* seg_start of segment k
start_of(k) ==
  seg_start_for(stop_of(k), stop_of(k).position - indent_left,
                cursor_before(k), runs, line_segments[k], WrapFonts(runs))

\* the leader chunk pushed before segment k, if any
leader_of(k) ==
  leader_chunks(runs, line_segments, k, cursor_before(k), start_of(k),
                tab_stops, indent_left, WrapFonts(runs))

\* the chunks of the text of segment k
text_chunks_of(k) ==
  {c \in line_chunks :
     ~is_leader(c.chunk)
       /\ \E j \in 1..Len(line_segments[k]) :
            line_segments[k][j] = c.chunk.run}

\* C25: in the line of build_tabbed_line no chunk overlaps the next or
\* moves backwards; for every alignment the segment after a tab starts at
\* or after the cursor reached before the tab, and its text at or after
\* that start; a leader chunk is pushed only when the gap between the
\* cursor and the segment start exceeds two leader-glyph widths, and then
\* it lies inside the gap and ends at the segment start.
C25_TabbedLineForward ==
  has_tabs =>
    LET chunks == lines[1].chunks IN
    /\ \A i \in 1..(Len(chunks) - 1) :
         chunks[i].x_offset + chunks[i].width <= chunks[i + 1].x_offset
    /\ \A k \in 2..Len(line_segments) :
         /\ start_of(k) >= cursor_before(k)
         /\ \A c \in text_chunks_of(k) : c.chunk.x_offset >= start_of(k)
         /\ \A j \in 1..(k - 1) : \A c \in text_chunks_of(j) :
              c.chunk.x_offset + c.chunk.width <= cursor_before(k)
         /\ leader_of(k) # <<>> =>
              LET l == leader_of(k)[1]
                  char_w == l.width \div Len(l.text)
              IN /\ start_of(k) - cursor_before(k) > 2 * char_w
                 /\ l.x_offset >= cursor_before(k)
                 /\ l.x_offset + l.width = start_of(k)
                 /\ \E i \in 1..Len(chunks) : chunks[i] = l
    /\ Cardinality({i \in 1..Len(chunks) : is_leader(chunks[i])})
         = Cardinality({k \in 2..Len(line_segments) : leader_of(k) # <<>>})

\* text, tab, text at a decimal stop with a leader: the segment is moved
\* back from the stop by its width and the leader fills the gap before it
C25_Witness ==
  /\ has_tabs
  /\ Len(line_segments) = 2
  /\ text_chunks_of(1) # {}
  /\ text_chunks_of(2) # {}
  /\ stop_of(2).alignment = "Decimal"
  /\ start_of(2) < stop_of(2).position - indent_left
  /\ leader_of(2) # <<>>

\* the right edge of the text of segment k as laid out
right_edge_of(k) ==
  LET ends == {c.chunk.x_offset + c.chunk.width : c \in text_chunks_of(k)}
  IN CHOOSE e \in ends : \A f \in ends : f <= e

\* the width segment_width measured for segment k
measured_width_of(k) == segment_width(runs, line_segments[k], WrapFonts(runs))

\* segment k is centred on or ends at its stop and the cursor did not hold
\* it back
aligned_free(k) ==
  LET tab_target == stop_of(k).position - indent_left
  IN /\ text_chunks_of(k) # {}
     /\ \/ /\ stop_of(k).alignment = "Right"
           /\ tab_target - measured_width_of(k) >= cursor_before(k)
        \/ /\ stop_of(k).alignment = "Center"
           /\ tab_target - (measured_width_of(k) \div 2) >= cursor_before(k)

\* C26: for a segment after a right-aligned or centred stop that the cursor
\* does not hold back, the width measured by segment_width is the width
\* the segment occupies in the line of build_tabbed_line, so its right edge
\* (its centre) is at the stop; also for a segment of several runs with no
\* whitespace between them.
C26_MeasuredWidthIsLaidWidth ==
  has_tabs =>
    \A k \in 2..Len(line_segments) :
      aligned_free(k) =>
        LET tab_target == stop_of(k).position - indent_left
            laid == right_edge_of(k) - start_of(k)
        IN /\ laid = measured_width_of(k)
           /\ stop_of(k).alignment = "Right" => right_edge_of(k) = tab_target
           /\ stop_of(k).alignment = "Center"
                => start_of(k) + (laid \div 2) = tab_target

\* ------------------------------------------------------------------------
\* Headers and footers with tab runs: render (pdf.rs 798-1268) on documents
\* of at most MaxTabBodyBlocks body blocks, 40pt between the margins,
\* whose header or footer is one paragraph with or without a tab run, with
\* or without a page-number field, under no stop, a Left stop and a Center
\* and a Right stop with leader
\* ------------------------------------------------------------------------
MaxTabBodyBlocks == 2

HeaderTabRuns ==
  {<<PlainRun(a_words(1)), TabRun, PlainRun(a_words(1))>>,
   <<PlainRun(a_words(1)), TabRun, PageField>>,
   <<TabRun, PlainRun(a_words(2))>>,
   <<PlainRun(a_words(2)), PageField>>}

HeaderTabStops ==
  {<<>>,
   <<TabStop(2000, "Left", NoneV)>>,
   <<TabStop(2000, "Center", NoneV), TabStop(4000, "Right", Some(46))>>}

HeaderTabBlocks == {JustifiedPara(1, FALSE), JustifiedPara(4, FALSE),
                    PageBreakPara, OneRowTable}

HeaderTabInit ==
  /\ \E blocks \in SeqsUpTo(HeaderTabBlocks, MaxTabBodyBlocks) :
       \E rs \in HeaderTabRuns, stops \in HeaderTabStops :
         \E is_header \in BOOLEAN :
           LET hf == Some(HeaderFooter(
                              <<[Paragraph(rs, "Left")
                                   EXCEPT !.tab_stops = stops]>>))
           IN doc = [RenderDoc(blocks, NoneV) EXCEPT
                       !.page_width = 6000,
                       !.header_default = IF is_header THEN hf ELSE NoneV,
                       !.footer_default = IF is_header THEN NoneV ELSE hf]
  /\ seen_fonts = NoneV
  /\ phase = "fonts"
  /\ block_idx = 0
  /\ all_contents = <<>>
  /\ current_content = <<>>
  /\ slot_top = 0
  /\ prev_space_after = 0
  /\ decision = NoneV
  /\ result = NoneV
  /\ WrapIdle
  /\ TableIdle
  /\ FontIdle
  /\ ConvertIdle

SpecHeaderTab == HeaderTabInit /\ [][RenderNext]_vars

\* ------------------------------------------------------------------------
\* Properties of header and footer layout
\* ------------------------------------------------------------------------
\* the lines a body paragraph with the runs rs and the stops and indent of
\* para is given by render (pdf.rs 970-982)
body_lines_for(para, rs) ==
  paragraph_lines([para EXCEPT !.runs = rs], doc, seen_fonts)

\* the header (kind "header") or footer paragraph pi drawn on page p has
\* the lines, the text and the positions from the left margin that a body
\* paragraph with its substituted runs has
flows_as_body(p, kind, para, pi) ==
  LET rs == substitute_fields(para.runs, p, Len(all_contents))
      drawn == SelectSeq(hf_lines(p, kind), LAMBDA op : op.src[2] = pi)
      body == body_lines_for(para, rs)
  IN /\ \A i \in 1..Len(rs) :
          para.runs[i].field_code = NoneV => rs[i].is_tab = para.runs[i].is_tab
     /\ Len(drawn) = Len(body)
     /\ \A li \in 1..Len(drawn) :
          /\ Len(drawn[li].shown) = Len(body[li].chunks)
          /\ \A ci \in 1..Len(drawn[li].shown) :
               /\ drawn[li].shown[ci] = shown_bytes(body[li].chunks[ci])
               /\ drawn[li].x[ci] - doc.margin_left
                    = body[li].chunks[ci].x_offset

variant_flows_as_body(p, kind, hf) ==
  hf # NoneV
    => \A pi \in 1..Len(hf[1].paragraphs) :
         hf[1].paragraphs[pi].runs # <<>>
           => flows_as_body(p, kind, hf[1].paragraphs[pi], pi)

\* C27: after field substitution a header or footer paragraph is laid out
\* as a body paragraph with the same runs and tab stops is: one with tab
\* runs is positioned by build_tabbed_line, and a tab run that is no field
\* keeps its tab role.
C27_HeaderFlowsAsBody ==
  phase = "done"
    => \A p \in 1..Len(all_contents) :
         /\ variant_flows_as_body(p, "header", doc.header_default)
         /\ variant_flows_as_body(p, "footer", doc.footer_default)

\* ------------------------------------------------------------------------
\* Properties of order
\* ------------------------------------------------------------------------
\* the run and word <<r, w>> comes before <<s, v>> in the run sequence
src_before(a, b) == a[1] < b[1] \/ (a[1] = b[1] /\ a[2] < b[2])

\* what the body has drawn, in drawing order over the pages
body_drawn == SelectSeq(Flatten(body_pages), LAMBDA op : op.block > 0)

\* the chunks of every body line follow the words of the runs
chunks_in_order ==
  \A i \in 1..Len(body_drawn) :
    body_drawn[i].kind = "line"
      => \A ci \in 1..(Len(body_drawn[i].chunk_src) - 1) :
           src_before(body_drawn[i].chunk_src[ci],
                      body_drawn[i].chunk_src[ci + 1])

\* the lines of every paragraph laid so far follow one another, over the
\* pages too, and so do their words
lines_in_order ==
  \A b \in 1..Len(doc.blocks) :
    doc.blocks[b].kind = "Paragraph"
      => LET ls == lines_in(body_pages, b)
         IN \A i \in 1..(Len(ls) - 1) :
              /\ ls[i + 1].idx = ls[i].idx + 1
              /\ (ls[i].chunk_src # <<>> /\ ls[i + 1].chunk_src # <<>>)
                   => src_before(ls[i].chunk_src[Len(ls[i].chunk_src)],
                                 ls[i + 1].chunk_src[1])

\* nothing of a block is drawn before anything of an earlier block: the
\* page of block i does not decrease with i
blocks_in_order ==
  \A i \in 1..(Len(body_drawn) - 1) :
    body_drawn[i].block <= body_drawn[i + 1].block

\* once the block loop is over there is a page
at_least_one_page == phase \in {"hf", "done"} => Len(all_contents) >= 1

\* the block loop only appends to the finished pages
pages_only_appended ==
  phase \in {"fonts", "blocks"}
    => /\ Len(all_contents') >= Len(all_contents)
       /\ SubSeq(all_contents', 1, Len(all_contents)) = all_contents

\* the pages are those the breaks of the block loop finished and one more
one_more_than_breaks ==
  /\ (phase = "blocks" /\ phase' = "hf")
       => Len(all_contents') = Len(all_contents) + 1
  /\ phase = "hf" => Len(all_contents') = Len(all_contents)

\* C28: order is kept through layout: the chunks of a line follow the
\* order of the words in the run sequence, the lines follow in order, the
\* page on which block i is placed does not decrease with i; the body
\* layout only appends pages and reopens no finished page; the output has
\* at least one page, one more than the page breaks taken.
C28_OrderPreserved ==
  /\ [](chunks_in_order /\ lines_in_order /\ blocks_in_order
          /\ at_least_one_page)
  /\ [][pages_only_appended /\ one_more_than_breaks]_vars

\* three pages at the end, a paragraph with lines on two of them and a
\* later block after it
C28_Witness ==
  /\ phase = "done"
  /\ Len(all_contents) = 3
  /\ \E b \in 1..(Len(doc.blocks) - 1) :
       /\ doc.blocks[b].kind = "Paragraph"
       /\ lines_in(<<all_contents[1]>>, b) # <<>>
       /\ lines_in(<<all_contents[2]>>, b) # <<>>
       /\ ops_in(<<all_contents[3]>>, b + 1) # <<>>

\* ------------------------------------------------------------------------
\* Properties of the text kept
\* ------------------------------------------------------------------------
\* where word w of run r of block b is drawn: the lines, counted over all
\* the pages, and the chunks in them
places_of(b, r, w) ==
  LET ls == lines_in(body_pages, b)
  IN UNION {{<<li, ci>> : ci \in {c \in 1..Len(ls[li].chunk_src) :
                                    ls[li].chunk_src[c] = <<r, w>>}} :
              li \in 1..Len(ls)}

\* every word of every run of the laid paragraph b that is no tab is drawn
\* once
words_kept(b) ==
  LET para == doc.blocks[b]
  IN \A r \in 1..Len(para.runs) :
       ~para.runs[r].is_tab
         => \A w \in 0..(Len(split_whitespace(para.runs[r].text)) - 1) :
              Cardinality(places_of(b, r, w)) = 1

\* C29: pagination drops no body text: for every body paragraph that is
\* not a page-break marker without content, every word of every run that
\* is no tab is drawn as a chunk on exactly one page, also when the
\* paragraph holds an image together with runs of text and when it is split
\* over two pages.
C29_NoTextDropped ==
  \A b \in 1..Len(doc.blocks) :
    (/\ phase \in {"blocks", "hf", "done"}
     /\ phase = "blocks" => b < block_idx
     /\ doc.blocks[b].kind = "Paragraph"
     /\ ~(doc.blocks[b].page_break_before /\ content_free(doc.blocks[b])))
      => words_kept(b)

\* ------------------------------------------------------------------------
\* The font index under concurrent callers: get_font_index (fonts.rs
\* 145-147) called by MaxCallers threads, each at most MaxCalls times in a
\* run of the program, over hosts that hold none, one or both of two files
\* giving the same face, so that two walks may build different indexes
\* ------------------------------------------------------------------------
MaxCallers == 2

MaxCalls == 2

Callers == 1..MaxCallers

IndexFontFiles == {"host.ttf", "host2.ttc"}

NoCall == [pc |-> "idle", calls |-> 0, seen |-> NoneV]

FontIndexInit ==
  /\ \E present \in SUBSET IndexFontFiles :
       font_files = [p \in present |-> HostFontFiles[p]]
  /\ embedded = NoIndex
  /\ FONT_INDEX = NoneV
  /\ registered = <<>>
  /\ process = 1
  /\ caller = [t \in Callers |-> NoCall]
  /\ scans = 0
  /\ WrapIdle
  /\ RenderIdle
  /\ TableIdle
  /\ ConvertIdle

\* some thread is running scan_font_dirs inside get_or_init
initialising == \E t \in DOMAIN caller : caller[t].pc = "scan"

\* thread t calls get_font_index: it is given the index, or runs the
\* initialiser, or waits for the thread that runs it
GetOrInit(t) ==
  /\ caller[t].pc = "idle"
  /\ caller[t].calls < MaxCalls
  /\ caller' = [caller EXCEPT
                  ![t] = [pc |-> get_or_init(FONT_INDEX, initialising),
                          calls |-> @.calls + 1,
                          seen |-> FONT_INDEX]]
  /\ UNCHANGED <<font_files, embedded, FONT_INDEX, registered, process,
                 scans, wrapVars, renderVars, tableVars, convertVars>>

\* the initialiser returns and its index is stored (fonts.rs 104-143, 146)
ScanFontDirs(t) ==
  /\ caller[t].pc = "scan"
  /\ \E order \in Orders(DOMAIN font_files) :
       LET index == scan_font_dirs(font_files, order)
       IN /\ FONT_INDEX' = Some(index)
          /\ caller' = [caller EXCEPT ![t].pc = "got",
                                      ![t].seen = Some(index)]
  /\ scans' = scans + 1
  /\ UNCHANGED <<font_files, embedded, registered, process, wrapVars,
                 renderVars, tableVars, convertVars>>

\* a waiting thread is given the index the initialiser stored
Woken(t) ==
  /\ caller[t].pc = "wait"
  /\ FONT_INDEX # NoneV
  /\ caller' = [caller EXCEPT ![t].pc = "got", ![t].seen = FONT_INDEX]
  /\ UNCHANGED <<font_files, embedded, FONT_INDEX, registered, process,
                 scans, wrapVars, renderVars, tableVars, convertVars>>

\* the thread looks its font up in the index it was given and goes on
\* (fonts.rs 151-164): the index is read only
FindFontFile(t) ==
  /\ caller[t].pc = "got"
  /\ caller' = [caller EXCEPT ![t].pc = "idle"]
  /\ UNCHANGED <<font_files, embedded, FONT_INDEX, registered, process,
                 scans, wrapVars, renderVars, tableVars, convertVars>>

\* the program ends and is run again: the static starts unset
RunAgain ==
  /\ process < MaxProcesses
  /\ process' = process + 1
  /\ FONT_INDEX' = NoneV
  /\ caller' = [t \in Callers |-> NoCall]
  /\ scans' = 0
  /\ UNCHANGED <<font_files, embedded, registered, wrapVars, renderVars,
                 tableVars, convertVars>>

FontIndexNext ==
  \/ \E t \in Callers : GetOrInit(t)
  \/ \E t \in Callers : ScanFontDirs(t)
  \/ \E t \in Callers : Woken(t)
  \/ \E t \in Callers : FindFontFile(t)
  \/ RunAgain

SpecFontIndex == FontIndexInit /\ [][FontIndexNext]_vars

\* ------------------------------------------------------------------------
\* Properties of the font index
\* ------------------------------------------------------------------------
\* scan_font_dirs has run at most once in this run of the program, and the
\* index is set exactly when it has
built_at_most_once ==
  /\ scans <= 1
  /\ FONT_INDEX # NoneV <=> scans = 1

\* every caller that was given an index was given the stored one
same_index_seen ==
  \A t \in DOMAIN caller :
    caller[t].pc \in {"got", "idle"} /\ caller[t].seen # NoneV
      => caller[t].seen = FONT_INDEX

\* within a run of the program a set index stays as it is
never_mutated ==
  (process' = process /\ FONT_INDEX # NoneV) => FONT_INDEX' = FONT_INDEX

\* C30: the host font index is built at most once per process: over any
\* number of calls and any interleaving of concurrent callers of
\* get_font_index the result of scan_font_dirs is stored once, every caller
\* is given that same index, and the index is not changed once set, not by
\* the lookups of layout either.
C30_IndexBuiltOnce ==
  /\ [](built_at_most_once /\ same_index_seen)
  /\ [][never_mutated]_vars

\* on a host where two walks may differ, one caller ran the scan while the
\* other waited, and both hold the stored index; one has called before
C30_Witness ==
  /\ DOMAIN font_files = IndexFontFiles
  /\ scans = 1
  /\ \A t \in Callers : caller[t].pc = "got" /\ caller[t].seen = FONT_INDEX
  /\ \E t \in Callers : caller[t].calls = 2
  /\ \E t \in Callers : caller[t].calls = 1

====
